---- MODULE Spec2Model ----
(***************************************************************************)
(* A model of alertmagnet (sapcc/alertmagnet).                             *)
(*                                                                         *)
(* The module holds one state machine per component; each has its own      *)
(* variables and its own specification, and leaves the other components'   *)
(* variables alone:                                                        *)
(*   SpecTM / FairSpecTM  utilities/semaphore.py      ThreadManager        *)
(*   SpecQE  utilities/query_management.py  QueryExecutor and Query        *)
(*   SpecDC  utilities/data_cleaner.py      DataCleaner                    *)
(*   SpecCA  analyzing/correlation_analyzer.py  CorrelationAnalyzer        *)
(*   SpecQS  utilities/query_management.py  QuerySplitter                  *)
(*   SpecTR  utilities/data_filter.py       create_time_ranges             *)
(*   SpecPL  main.py, analyzing/analyzer.py the stages on a run directory  *)
(*   SpecFD  analyzing/analyzing_filter.py  __filter_data                  *)
(*   SpecTS  analyzing/correlation_analyzer.py  the binary samples         *)
(*   SpecCL  analyzing/analyzer.py          create_alert_corrrelation_list *)
(*   SpecMD  analyzing/duration_analyzer.py the mean durations             *)
(*   SpecEX / FairSpecEX  main.py, presenting/metrics.py  the Exporter     *)
(*   SpecPQ  utilities/query_management.py  Query.__parse_request_data     *)
(*   SpecCP  utilities/calc.py              __parse_past_range             *)
(*   SpecQW  utilities/query_management.py  the query tasks' directories   *)
(***************************************************************************)
EXTENDS Integers, Sequences, FiniteSets, TLC

\* ------------------------------------------------------------------ bounds

\* The most tasks submitted to one ThreadManager.
MaxTasks == 3
\* semaphore_count of the ThreadManager (the configured cores).
Cap == 2
\* The nested halvings the interpreter's call stack has room for: one more
\* nested execute_query raises RecursionError (the interpreter's recursion
\* limit, scaled down).
MaxDepth == 2
\* The most data files a tier's run directory holds when it is compacted.
MaxFiles == 2
\* cores of the CorrelationAnalyzer (the configured cores).
Cores == 1
\* The longest timestamp list given to create_time_ranges, and the largest
\* timestamp in it.
MaxLen == 3
MaxTs == 5

\* --------------------------------------------------------------- variables

VARIABLES
    \* ThreadManager (utilities/semaphore.py)
    tm_threads,     \* self.threads: the keys in insertion order
    tm_sem,         \* self.semaphore: the permits left
    tm_caller,      \* where the caller of execute_all_threads is
    tm_iter,        \* position of "for key in self.threads"
    tm_launched,    \* the local list "threads" of execute_all_threads
    tm_join,        \* position of "for thread in threads: thread.join()"
    tm_tpc,         \* per key: the state of the Thread started for it
    tm_outcome,     \* how execute_all_threads ended for its caller
    tm_atcall,      \* history: len(self.threads) when execute_all_threads began
    \* QueryExecutor and Query (utilities/query_management.py), one chunk task
    qe_stack,       \* the nested execute_query calls: the query of each, and
                    \* where its __handle_query_result stands
    qe_chunk,       \* QueryExecutor.chunk
    qe_files,       \* the chunk directory: K |-> the content of data{K}.json
    qe_attempt,     \* the "for _ in range(3)" index of the running execute
    qe_pc,          \* running | returned | raised | RecursionError
    qe_last,        \* history: the last request sent (its start and end
                    \* parameters, those of the request of the calling
                    \* execute_query, which half it is, the K in use, its
                    \* number within the execute) and what came of it
    qe_hist,        \* history: the chunk's window, whether the backend has
                    \* answered as the halving scenario's backend so far, and
                    \* the successful requests while it did
    \* DataCleaner (utilities/data_cleaner.py), one tier
    dc_files,       \* the data files of the run directory, in the order
                    \* os.listdir gives them: each the result list of a file
    dc_data,        \* self.data["data"]["result"] once every values list is
                    \* sorted(set(...)) (data_cleaner.py:54)
    dc_final,       \* the result list of finalData.json
    dc_pc,          \* ready | done | raised
    \* CorrelationAnalyzer (analyzing/correlation_analyzer.py)
    ca_in,          \* the input: per cluster its alert names in dict order,
                    \* and what pandas' corr gives for two of its columns
    ca_pc,          \* where calc_corrcoefficient_matrix (the main thread) is
    ca_cidx,        \* the cluster the main thread's loop is at
    ca_tidx,        \* the thread the start loop of collect_alert_samples is at
    ca_sem,         \* self.semaphore: the permits left
    ca_st,          \* per alert: the state of its __get_time_samples thread
    ca_store,       \* the keys of __store, in insertion order
    ca_alerts,      \* self.alerts
    ca_dm,          \* self.data_matrix: per cluster the columns, in order
    ca_matrix,      \* self.matrix while it holds [sum, count] cells
    ca_w,           \* per cluster: the state of its
                    \* __calc_corrcoefficient_per_cluster thread
    ca_final,       \* self.matrix after __calc_matrix_results
    \* QuerySplitter (utilities/query_management.py)
    qs_in,          \* the call: start, end, threshold, separator, the kwargs
                    \* given, and the process's time zone
    qs_heap,        \* the dicts (kwargs, kwargs["params"], Query.params), by
                    \* object identity
    qs_query,       \* the Query that is split
    qs_out,         \* what the split returned
    qs_pc,          \* created | threshold | separator | changed | raised
    qs_before,      \* heap and specs as they were before a parameter of
                    \* one spec was changed, and which spec that was
    \* data_filter.create_time_ranges
    tr_data,        \* the argument data
    tr_step,        \* the argument step
    tr_out,         \* the list returned
    tr_pc,          \* called | returned
    \* the stages on a run directory (main.do_analysis)
    pl_groups,      \* the group directories of the run directory, each with
                    \* the data files it holds
    pl_files,       \* the artifacts the run directory holds
    pl_shape,       \* what finalData.json holds: the response object the
                    \* compactor writes, or a list of series
    pl_last,        \* the stage called last: what it found, whether it
                    \* computed, wrote, raised
    \* analyzing_filter.__filter_data
    fd_in,          \* the argument data, a list of series
    fd_out,         \* the dict returned
    fd_pc,          \* called | returned | raised
    \* CorrelationAnalyzer.__create_time_samples_per_time
    ts_in,          \* start, end, and the sorted ranges
    ts_out,         \* the samples returned
    ts_pc,          \* called | returned
    \* analyzer.create_alert_corrrelation_list
    cl_in,          \* the alert axis and the final matrix
    cl_out,         \* the dict written to correlating_alerts.json
    cl_pc,          \* called | returned
    \* duration_analyzer.__calc_mean_duration_per_alertname
    md_in,          \* the argument results, a list of series
    md_out,         \* the dict returned
    md_pc,          \* called | returned | raised
    \* main.main and presenting/metrics.Exporter
    ex_paths,       \* Exporter.paths
    ex_files,       \* per run directory, the values of alertMeanDurations.json
                    \* and correlating_alerts.json, once written
    ex_gauges,      \* the values the two gauges were set to
    ex_thread,      \* the exporter thread: created | serving | important |
                    \* correlation | ended
    ex_main,        \* the main thread: start | analysis | analysed | sleeping
    ex_cycle,       \* the passes of "while True" begun
    \* Query.__init__ and Query.__parse_request_data
    pq_in,          \* start, end and the kwargs given
    pq_out,         \* the target and the params of the Query
    pq_pc,          \* called | returned
    \* Calc.__parse_past_range
    cp_in,          \* the argument past_range, a string
    cp_out,         \* the days of the timedelta returned
    cp_pc,          \* called | returned | raised
    \* QueryManager, QueryQueue and QueryObject: the tasks and their files
    qw_in,          \* per tier, the number of query objects of its queue
    qw_env,         \* the directories made and the path of every queue and
                    \* query object
    qw_task,        \* per query task: where it is, and its executor's chunk
    qw_written      \* the writes so far: (task, file)

tmVars == <<tm_threads, tm_sem, tm_caller, tm_iter, tm_launched, tm_join,
            tm_tpc, tm_outcome, tm_atcall>>

qeVars == <<qe_stack, qe_chunk, qe_files, qe_attempt, qe_pc, qe_last, qe_hist>>

dcVars == <<dc_files, dc_data, dc_final, dc_pc>>

caVars == <<ca_in, ca_pc, ca_cidx, ca_tidx, ca_sem, ca_st, ca_store, ca_alerts,
            ca_dm, ca_matrix, ca_w, ca_final>>

qsVars == <<qs_in, qs_heap, qs_query, qs_out, qs_pc, qs_before>>

trVars == <<tr_data, tr_step, tr_out, tr_pc>>

plVars == <<pl_groups, pl_files, pl_shape, pl_last>>

fdVars == <<fd_in, fd_out, fd_pc>>

tsVars == <<ts_in, ts_out, ts_pc>>

clVars == <<cl_in, cl_out, cl_pc>>

mdVars == <<md_in, md_out, md_pc>>

exVars == <<ex_paths, ex_files, ex_gauges, ex_thread, ex_main, ex_cycle>>

\* The variables of the components after the analysis stages.
pqVars == <<pq_in, pq_out, pq_pc>>

cpVars == <<cp_in, cp_out, cp_pc>>

qwVars == <<qw_in, qw_env, qw_task, qw_written>>

lateVars == <<exVars, pqVars, cpVars, qwVars>>

\* The variables of the analysis stages and of what follows them.
anVars == <<plVars, fdVars, tsVars, clVars, mdVars, lateVars>>

vars == <<tmVars, qeVars, dcVars, caVars, qsVars, trVars, anVars>>

\* ================================================================== helpers

RECURSIVE SeqSum(_)
SeqSum(s) == IF s = <<>> THEN 0 ELSE Head(s) + SeqSum(Tail(s))

IsPrefix(s, t) == Len(s) <= Len(t) /\ SubSeq(t, 1, Len(s)) = s

Range(s) == {s[i] : i \in DOMAIN s}

\* ============================================== ThreadManager (semaphore.py)

TaskIds == 1..MaxTasks

\* ThreadManager.__init__
TMInit ==
    /\ tm_threads = <<>>
    /\ tm_sem = Cap
    /\ tm_caller = "idle"
    /\ tm_iter = 1
    /\ tm_launched = <<>>
    /\ tm_join = 1
    /\ tm_tpc = [k \in TaskIds |-> "unstarted"]
    /\ tm_outcome = "none"
    /\ tm_atcall = 0

\* The threads that are inside func(), holding a permit.
Running == {k \in TaskIds : tm_tpc[k] = "running"}

\* A thread that has ended: func returned, or raised and the thread died.
Ended(k) == tm_tpc[k] \in {"finished", "raised"}

\* add_thread: no guard in the code; the key is a fresh uuid, appended to the
\* dict.  The caller is single-threaded, so it submits only when it is not
\* inside execute_all_threads.
AddThread ==
    /\ tm_caller \in {"idle", "returned"}
    /\ Len(tm_threads) < MaxTasks
    /\ tm_threads' = Append(tm_threads, Len(tm_threads) + 1)
    /\ UNCHANGED <<tm_sem, tm_caller, tm_iter, tm_launched, tm_join, tm_tpc,
                   tm_outcome, tm_atcall>>

\* execute_all_threads is entered: threads = [], the for loop begins.
ExecuteAllThreads ==
    /\ tm_caller = "idle"
    /\ tm_caller' = IF Len(tm_threads) = 0 THEN "returned" ELSE "launching"
    /\ tm_outcome' = IF Len(tm_threads) = 0 THEN "normal" ELSE tm_outcome
    /\ tm_atcall' = Len(tm_threads)
    /\ tm_iter' = 1
    /\ tm_launched' = <<>>
    /\ tm_join' = 1
    /\ UNCHANGED <<tm_threads, tm_sem, tm_tpc>>

\* One iteration of the launch loop: start_thread(key), threads.append,
\* time.sleep(delay).  The new Thread begins in wrapper_thread, before the
\* semaphore.
StartThread ==
    /\ tm_caller = "launching"
    /\ tm_iter <= Len(tm_threads)
    /\ LET key == tm_threads[tm_iter] IN
        /\ tm_tpc' = [tm_tpc EXCEPT ![key] = "waiting"]
        /\ tm_launched' = Append(tm_launched, key)
    /\ tm_iter' = tm_iter + 1
    /\ tm_caller' = IF tm_iter = Len(tm_threads) THEN "joining" ELSE "launching"
    /\ UNCHANGED <<tm_threads, tm_sem, tm_join, tm_outcome, tm_atcall>>

\* Mutant of SemaphoreFree: wrapper_thread calls func() without the semaphore.
SemaphoreFree_NoGuard == TRUE

\* The guard of "with self.semaphore": a permit is free.
SemaphoreFree == tm_sem > 0

\* wrapper_thread: "with self.semaphore:" acquires, then func() runs.
WrapperAcquire(k) ==
    /\ tm_tpc[k] = "waiting"
    /\ SemaphoreFree
    /\ tm_sem' = tm_sem - 1
    /\ tm_tpc' = [tm_tpc EXCEPT ![k] = "running"]
    /\ UNCHANGED <<tm_threads, tm_caller, tm_iter, tm_launched, tm_join,
                   tm_outcome, tm_atcall>>

\* func() returns; the with block releases the permit.
FuncReturn(k) ==
    /\ tm_tpc[k] = "running"
    /\ tm_sem' = tm_sem + 1
    /\ tm_tpc' = [tm_tpc EXCEPT ![k] = "finished"]
    /\ UNCHANGED <<tm_threads, tm_caller, tm_iter, tm_launched, tm_join,
                   tm_outcome, tm_atcall>>

\* func() raises; the with block releases the permit, the exception ends the
\* thread (threading prints it; nothing stores it).
FuncRaise(k) ==
    /\ tm_tpc[k] = "running"
    /\ tm_sem' = tm_sem + 1
    /\ tm_tpc' = [tm_tpc EXCEPT ![k] = "raised"]
    /\ UNCHANGED <<tm_threads, tm_caller, tm_iter, tm_launched, tm_join,
                   tm_outcome, tm_atcall>>

\* Mutant of JoinReady: the join loop does not wait for the thread.
JoinReady_NoWait(k) == TRUE

\* thread.join() returns once the thread has ended.
JoinReady(k) == Ended(k)

\* How execute_all_threads ends after the last join: it falls off the end of
\* the function; Thread.join never re-raises what the thread raised.
OutcomeAfterJoins == "normal"

\* One iteration of "for thread in threads: thread.join()".
Join ==
    /\ tm_caller = "joining"
    /\ tm_join <= Len(tm_launched)
    /\ JoinReady(tm_launched[tm_join])
    /\ tm_join' = tm_join + 1
    /\ IF tm_join = Len(tm_launched)
       THEN tm_caller' = "returned" /\ tm_outcome' = OutcomeAfterJoins
       ELSE UNCHANGED <<tm_caller, tm_outcome>>
    /\ UNCHANGED <<tm_threads, tm_sem, tm_iter, tm_launched, tm_tpc, tm_atcall>>

\* main.query_data after tm.execute_all_threads() has returned: the loop over
\* the tiers calls dc.clear_query_results on each tier whose queue holds query
\* objects (those that scheduled a task).
ClearQueryResultsOfTiers ==
    /\ tm_caller = "returned"
    /\ tm_atcall > 0
    /\ tm_caller' = "compacting"
    /\ UNCHANGED <<tm_threads, tm_sem, tm_iter, tm_launched, tm_join, tm_tpc,
                   tm_outcome, tm_atcall>>

\* The steps of a run of execute_all_threads and of its threads.
TMProgress ==
    \/ StartThread
    \/ \E k \in TaskIds : WrapperAcquire(k)
    \/ \E k \in TaskIds : FuncReturn(k)
    \/ \E k \in TaskIds : FuncRaise(k)
    \/ Join

NextTM ==
    /\ \/ AddThread
       \/ ExecuteAllThreads
       \/ TMProgress
       \/ ClearQueryResultsOfTiers
    /\ UNCHANGED <<qeVars, dcVars, caVars, qsVars, trVars, anVars>>

\* A state of the QueryExecutor for the specifications it takes no part in.
QEIdle ==
    /\ qe_stack = <<>>
    /\ qe_chunk = 0
    /\ qe_files = << >>
    /\ qe_attempt = 0
    /\ qe_pc = "idle"
    /\ qe_last = << >>
    /\ qe_hist = << >>

\* A state of the DataCleaner for the specifications it takes no part in.
DCIdle ==
    /\ dc_files = <<>>
    /\ dc_data = <<>>
    /\ dc_final = <<>>
    /\ dc_pc = "idle"

\* A state of the CorrelationAnalyzer for the specifications it takes no
\* part in.
CAIdle ==
    /\ ca_in = <<>>
    /\ ca_pc = "idle"
    /\ ca_cidx = 0
    /\ ca_tidx = 0
    /\ ca_sem = 0
    /\ ca_st = <<>>
    /\ ca_store = <<>>
    /\ ca_alerts = <<>>
    /\ ca_dm = <<>>
    /\ ca_matrix = <<>>
    /\ ca_w = <<>>
    /\ ca_final = <<>>

\* A state of the QuerySplitter for the specifications it takes no part in.
QSIdle ==
    /\ qs_in = <<>>
    /\ qs_heap = <<>>
    /\ qs_query = <<>>
    /\ qs_out = <<>>
    /\ qs_pc = "idle"
    /\ qs_before = <<>>

\* create_time_ranges not called.
TRIdle ==
    /\ tr_data = <<>>
    /\ tr_step = 0
    /\ tr_out = <<>>
    /\ tr_pc = "idle"

\* No stage called on a run directory.
PLIdle ==
    /\ pl_groups = <<>>
    /\ pl_files = {}
    /\ pl_shape = "none"
    /\ pl_last = <<>>

\* __filter_data not called.
FDIdle ==
    /\ fd_in = <<>>
    /\ fd_out = <<>>
    /\ fd_pc = "idle"

\* __create_time_samples_per_time not called.
TSIdle ==
    /\ ts_in = <<>>
    /\ ts_out = <<>>
    /\ ts_pc = "idle"

\* create_alert_corrrelation_list not called.
CLIdle ==
    /\ cl_in = <<>>
    /\ cl_out = <<>>
    /\ cl_pc = "idle"

\* __calc_mean_duration_per_alertname not called.
MDIdle ==
    /\ md_in = <<>>
    /\ md_out = <<>>
    /\ md_pc = "idle"

\* main not started.
EXIdle ==
    /\ ex_paths = <<>>
    /\ ex_files = <<>>
    /\ ex_gauges = <<>>
    /\ ex_thread = "idle"
    /\ ex_main = "idle"
    /\ ex_cycle = 0

\* No Query made.
PQIdle ==
    /\ pq_in = <<>>
    /\ pq_out = <<>>
    /\ pq_pc = "idle"

\* __parse_past_range not called.
CPIdle ==
    /\ cp_in = <<>>
    /\ cp_out = 0
    /\ cp_pc = "idle"

\* No QueryManager made.
QWIdle ==
    /\ qw_in = <<>>
    /\ qw_env = <<>>
    /\ qw_task = <<>>
    /\ qw_written = {}

\* None of the components after the analysis stages started.
LateIdle == EXIdle /\ PQIdle /\ CPIdle /\ QWIdle

\* None of the analysis stages called.
ANIdle == PLIdle /\ FDIdle /\ TSIdle /\ CLIdle /\ MDIdle /\ LateIdle

InitTM == TMInit /\ QEIdle /\ DCIdle /\ CAIdle /\ QSIdle /\ TRIdle /\ ANIdle

SpecTM == InitTM /\ [][NextTM]_vars

\* Every started thread is scheduled, every task function ends (the claims'
\* premise "each task terminates"), and the caller keeps running.
FairSpecTM ==
    SpecTM /\ WF_vars(TMProgress /\ UNCHANGED <<qeVars, dcVars, caVars, qsVars, trVars, anVars>>)

\* ------------------------------------------------ claims on ThreadManager

\* C1: under every interleaving, at every instant the number of tasks that
\* are executing their task function is at most the cap N.
C1_RunningAtMostCap == Cardinality(Running) <= Cap

\* The cap is reached while another started thread waits for a permit.
C1_Witness ==
    /\ Cardinality(Running) = Cap
    /\ \E k \in TaskIds : tm_tpc[k] = "waiting"

\* The launches so far are the first keys of self.threads, in submission
\* order, each once; a thread exists only for a launched key; and when
\* execute_all_threads has returned, every task submitted before the call was
\* launched and has ended.
C2_Safety ==
    /\ IsPrefix(tm_launched, tm_threads)
    /\ \A k \in TaskIds : tm_tpc[k] # "unstarted" => k \in Range(tm_launched)
    /\ tm_caller = "returned" =>
         /\ tm_launched = SubSeq(tm_threads, 1, tm_atcall)
         /\ \A k \in 1..tm_atcall : Ended(k)

\* C2: execute_all_threads launches every task submitted before it exactly
\* once, in submission order, returns only after every launched task has
\* ended, and, every task terminating, it does return.
C2_RunAll ==
    /\ []C2_Safety
    /\ (tm_caller = "launching") ~> (tm_caller = "returned")

\* execute_all_threads has returned after launching and joining two or more
\* tasks.
C2_Witness ==
    /\ tm_caller = "returned"
    /\ tm_atcall >= 2
    /\ Len(tm_launched) = tm_atcall

\* C9 (as claimed): when a task raised during the run, execute_all_threads
\* does not return normally but propagates the failure to its caller.
C9_FailurePropagated ==
    (tm_caller = "returned" /\ \E k \in TaskIds : tm_tpc[k] = "raised")
        => tm_outcome = "raised"

\* C38: the compaction of the tiers starts only after every chunk task of
\* the run has ended: while the compactor works no query task is running or
\* still waiting to run, and every task of the run was started and has ended.
C38_CompactionAfterTasks ==
    tm_caller = "compacting" =>
        /\ \A k \in TaskIds : tm_tpc[k] \notin {"waiting", "running"}
        /\ \A i \in DOMAIN tm_threads : i <= tm_atcall => Ended(tm_threads[i])

\* The compaction runs after a run of two or more tasks, one of which raised.
C38_Witness ==
    /\ tm_caller = "compacting"
    /\ tm_atcall >= 2
    /\ \E k \in TaskIds : tm_tpc[k] = "raised"
    /\ \E k \in TaskIds : tm_tpc[k] = "finished"

\* C32 (as claimed): once execute_all_threads has started, a further
\* add_thread on the same ThreadManager is rejected: the task is not
\* accepted, so the tasks held are those held when the run started.
C32_SubmitAfterRunRejected ==
    tm_caller # "idle" => Len(tm_threads) = tm_atcall

\* ===================== Query and QueryExecutor (utilities/query_management.py)

\* A key that a JSON object does not have.
ABSENT == "<absent>"

\* A JSON object of the query API, with the keys the code reads.  obj is the
\* Python object it is (identity); the other fields are its content (what ==
\* compares and json.dumps writes).
Body(obj, status, errorType, error, hasData, result) ==
    [obj |-> obj, json |-> TRUE, status |-> status, errorType |-> errorType,
     error |-> error, hasData |-> hasData, result |-> result]

\* The content of a JSON object, without its identity.
Content(r) == [json |-> r.json, status |-> r.status, errorType |-> r.errorType,
               error |-> r.error, hasData |-> r.hasData, result |-> r.result]

\* Python's == on two parsed JSON objects.
JsonEq(a, b) == Content(a) = Content(b)

ExceededText ==
    "exceeded maximum resolution of 11,000 points per timeseries. Try decreasing the query resolution (?step=XX)"

\* response_messages.MESSAGE_EXCEEDED_MAXIMUM
MESSAGE_EXCEEDED_MAXIMUM ==
    Body("MESSAGE_EXCEEDED_MAXIMUM", "error", "bad_data", ExceededText, FALSE, <<>>)

\* Mutant of EMPTY_RESULTS: the empty marker is an error object.
EMPTY_RESULTS_Error == Body("EMPTY_RESULTS", "error", "empty", ABSENT, FALSE, <<>>)

\* response_messages.EMPTY_RESULTS
EMPTY_RESULTS == Body("EMPTY_RESULTS", "success", ABSENT, ABSENT, TRUE, <<>>)

\* The bodies the backend may answer with.
RawSeries == [metric |-> "a", values |-> << <<0, "1">>, <<60, "1">> >>]
B_data == Body("parsed", "success", ABSENT, ABSENT, TRUE, <<RawSeries>>)
B_nodata == Body("parsed", "success", ABSENT, ABSENT, TRUE, <<>>)
B_exceeded == Body("parsed", "error", "bad_data", ExceededText, FALSE, <<>>)
B_bad_data_other == Body("parsed", "error", "bad_data", "invalid parameter", FALSE, <<>>)
B_error_other == Body("parsed", "error", "execution", "query failed", FALSE, <<>>)
B_error_notype == Body("parsed", "error", ABSENT, "query failed", FALSE, <<>>)
B_no_status == Body("parsed", ABSENT, ABSENT, ABSENT, TRUE, <<>>)
B_not_json == [Body("parsed", ABSENT, ABSENT, ABSENT, FALSE, <<>>) EXCEPT !.json = FALSE]
\* Valid JSON that is no object (a list, null, a number).
B_not_object == Body("parsed-non-object", ABSENT, ABSENT, ABSENT, FALSE, <<>>)

Bodies == {B_data, B_nodata, B_exceeded, B_bad_data_other, B_error_other,
           B_error_notype, B_no_status, B_not_json, B_not_object}

\* What __parse_request_result gives when data["status"] raises TypeError,
\* which no clause catches.
RAISED_TypeError == Body("TypeError", ABSENT, ABSENT, ABSENT, FALSE, <<>>)

\* What requests.get may raise, and the classes each is an instance of.
Exceptions == {"ConnectTimeout", "ReadTimeout", "SSLError", "ProxyError",
               "ConnectionError", "ChunkedEncodingError", "InvalidURL"}

ClassesOf(exc) ==
    CASE exc = "ConnectTimeout" -> {"ConnectTimeout", "ConnectionError", "Timeout"}
      [] exc = "ReadTimeout" -> {"ReadTimeout", "Timeout"}
      [] exc = "SSLError" -> {"SSLError", "ConnectionError"}
      [] exc = "ProxyError" -> {"ProxyError", "ConnectionError"}
      [] OTHER -> {exc}

\* The failures of a request before any response: connect timeout, SSL
\* failure, connection error (a proxy error is one).
TransientErrors == {"ConnectTimeout", "SSLError", "ProxyError", "ConnectionError"}

\* What one requests.get does: a response with a body, or an exception.
NetOutcomes == [exc : {"none"}, body : Bodies] \cup [exc : Exceptions, body : {B_not_json}]

\* The except clauses of __execute_request, in order, and what each does.
ExceptChain == <<"ConnectTimeout", "ReadTimeout", "SSLError", "ConnectionError",
                 "ChunkedEncodingError", "Exception">>

\* The first except clause that catches exc (every class is an Exception).
ClauseOf(exc) ==
    LET hits == {i \in DOMAIN ExceptChain :
                    ExceptChain[i] \in ClassesOf(exc) \cup {"Exception"}}
    IN ExceptChain[CHOOSE i \in hits : \A j \in hits : i <= j]

\* Mutant of ClauseAction: a read timeout is retried like a connect timeout.
ClauseAction_RetryReadTimeout(clause) ==
    CASE clause \in {"ConnectTimeout", "SSLError", "ConnectionError", "ReadTimeout"} -> "continue"
      [] clause \in {"ChunkedEncodingError"} -> "exceeded"
      [] OTHER -> "raise"

ClauseAction(clause) ==
    CASE clause \in {"ConnectTimeout", "SSLError", "ConnectionError"} -> "continue"
      [] clause \in {"ReadTimeout", "ChunkedEncodingError"} -> "exceeded"
      [] OTHER -> "raise"

\* Mutant of Attempts: the loop runs once more.
Attempts_Four == 3 + 1

\* for _ in range(3)
Attempts == 3

\* helper.ResponseDummy(value): json() returns the value itself.
ResponseDummy(value) == value

\* One iteration of the loop of Query.__execute_request, in iteration
\* `attempt` (from 0), requests.get ending as `out`: the loop goes on, or the
\* function returns a response, or it raises.
ExecuteRequest(attempt, out) ==
    IF out.exc = "none"
    THEN [next |-> "return", response |-> out.body]
    ELSE LET act == ClauseAction(ClauseOf(out.exc)) IN
         CASE act = "continue" ->
                IF attempt + 1 < Attempts
                THEN [next |-> "continue", response |-> out.body]
                ELSE [next |-> "return", response |-> ResponseDummy(EMPTY_RESULTS)]
           [] act = "exceeded" ->
                [next |-> "return", response |-> ResponseDummy(MESSAGE_EXCEEDED_MAXIMUM)]
           [] OTHER -> [next |-> "raise", response |-> out.body]

\* Mutant of ParseRequestResult: an error of another type than bad_data is
\* handed on as it is.
ParseRequestResult_KeepErrors(response) ==
    IF ~response.json THEN EMPTY_RESULTS
    ELSE IF response.obj = "parsed-non-object" THEN RAISED_TypeError
    ELSE IF response.status = ABSENT THEN EMPTY_RESULTS
    ELSE response

\* Query.__parse_request_result
ParseRequestResult(response) ==
    IF ~response.json THEN EMPTY_RESULTS
    ELSE IF response.obj = "parsed-non-object" THEN RAISED_TypeError
    ELSE IF response.status = ABSENT THEN EMPTY_RESULTS
    ELSE IF response.status = "error" /\ response.errorType = ABSENT THEN EMPTY_RESULTS
    ELSE IF response.status = "error" /\ response.errorType # "bad_data" THEN EMPTY_RESULTS
    ELSE response

\* data_filter.remove_state_from_timestamp_value
remove_state_from_timestamp_value(data) == [i \in DOMAIN data |-> data[i][1]]

\* The success branch of __handle_query_result: every entry's values lose
\* their state; the result is what json.dumps writes.
StripResult(result) ==
    [Content(result) EXCEPT !.result =
        [i \in DOMAIN result.result |->
            [result.result[i] EXCEPT
                !.values = remove_state_from_timestamp_value(result.result[i].values)]]]

\* QueryExecutor.__split_request_by_half: two deep copies of the query; the
\* first gets global_start = mid, the second global_end = mid.  params (ps,
\* pe: the start and end that are sent) is copied as it is.
SplitRequestByHalf(query) ==
    LET mid == query.ge - ((query.ge - query.gs) \div 2) IN
    << [query EXCEPT !.gs = mid], [query EXCEPT !.ge = mid] >>

\* Unwind with a caller that executes its second half without chunk += 1.
RECURSIVE Unwind_NoIncrement(_, _)
Unwind_NoIncrement(st, ch) ==
    IF st = <<>> THEN [stack |-> <<>>, chunk |-> ch]
    ELSE LET n == Len(st) IN
         IF st[n].phase = "first"
         THEN [stack |-> Append([st EXCEPT ![n].phase = "second"],
                                [query |-> st[n].query2, phase |-> "exec",
                                 query2 |-> st[n].query2]),
               chunk |-> ch]
         ELSE Unwind_NoIncrement(SubSeq(st, 1, n - 1), ch + 1)

\* An execute_query call returned to the frames in `st` (innermost last) with
\* self.chunk = ch: a caller that ran its first half does chunk += 1 and
\* executes the second; one that ran its second half does chunk += 1 and
\* returns in turn.
RECURSIVE Unwind(_, _)
Unwind(st, ch) ==
    IF st = <<>> THEN [stack |-> <<>>, chunk |-> ch]
    ELSE LET n == Len(st) IN
         IF st[n].phase = "first"
         THEN [stack |-> Append([st EXCEPT ![n].phase = "second"],
                                [query |-> st[n].query2, phase |-> "exec",
                                 query2 |-> st[n].query2]),
               chunk |-> ch + 1]
         ELSE Unwind(SubSeq(st, 1, n - 1), ch + 1)

\* The length L of the backend of the halving scenario: it answers "exceeded"
\* exactly for requests that span more than L.  A power of two, so that every
\* halving the stack has room for is exact, as it is in floating point.
L == 2 ^ MaxDepth

\* The chunks a task may be given: [0, W].
Windows == {L, 2 * L}

\* What the backend of the halving scenario answers to a request [ps, pe].
ThresholdAnswer(ps, pe) == IF pe - ps > L THEN B_exceeded ELSE B_data

\* QueryObject.execute_query up to the first request: the chunk's query as
\* split_by_separator made it (set_start and set_end set global_start,
\* global_end and params alike), a new QueryExecutor.
QEInit ==
    /\ \E w \in Windows :
        /\ qe_stack = << [query |-> [gs |-> 0, ge |-> w, ps |-> 0, pe |-> w],
                          phase |-> "exec",
                          query2 |-> [gs |-> 0, ge |-> w, ps |-> 0, pe |-> w]] >>
        /\ qe_hist = [window |-> w, conforms |-> TRUE, nsuccess |-> 0]
    /\ qe_chunk = 0
    /\ qe_files = << >>
    /\ qe_attempt = 0
    /\ qe_pc = "running"
    /\ qe_last = [ps |-> 0, pe |-> 0, pps |-> 0, ppe |-> 0, which |-> "none",
                  kind |-> "none", wrote |-> FALSE, k |-> 0, sent |-> 0,
                  transient |-> FALSE, got |-> [exc |-> "none", body |-> B_nodata]]

\* The file system after open(data{k}.json, "w") and write.
WriteFile(files, k, content) ==
    [j \in DOMAIN files \cup {k} |-> IF j = k THEN content ELSE files[j]]

\* What the executor's result is called: the EMPTY sentinel (by identity), the
\* exceeded marker (by ==, as the code tests it), success data, or another
\* error object.
KindOf(result) ==
    IF result.obj = "EMPTY_RESULTS" THEN "EMPTY"
    ELSE IF JsonEq(result, MESSAGE_EXCEEDED_MAXIMUM) THEN "EXCEEDED_MAX"
    ELSE IF result.status = "success" THEN "success"
    ELSE "other"

\* One requests.get of the running execute_query and all that follows it up
\* to the next request: the retry loop, __parse_request_result,
\* __handle_query_result (write, or split and recurse), and the returns.
SendRequest ==
    /\ qe_pc = "running"
    /\ \E out \in NetOutcomes :
        LET n == Len(qe_stack)
            frame == qe_stack[n]
            q == frame.query
            parent == IF n > 1 THEN qe_stack[n - 1].query ELSE q
            which == IF n > 1 THEN qe_stack[n - 1].phase ELSE "top"
            step == ExecuteRequest(qe_attempt, out)
            result == ParseRequestResult(step.response)
            sent == qe_attempt + 1
            last == [ps |-> q.ps, pe |-> q.pe, pps |-> parent.ps, ppe |-> parent.pe,
                     which |-> which, kind |-> "none", wrote |-> FALSE,
                     k |-> qe_chunk, sent |-> sent,
                     transient |-> out.exc \in TransientErrors, got |-> out]
            conforms == qe_hist.conforms /\ out.exc = "none"
                            /\ out.body = ThresholdAnswer(q.ps, q.pe)
            hist == [qe_hist EXCEPT !.conforms = conforms,
                                    !.nsuccess = IF conforms THEN @ ELSE 0]
        IN
        CASE step.next = "continue" ->
               /\ qe_attempt' = qe_attempt + 1
               /\ qe_last' = [last EXCEPT !.kind = "retry"]
               /\ qe_hist' = hist
               /\ UNCHANGED <<qe_stack, qe_chunk, qe_files, qe_pc>>
          [] step.next = "raise" \/ (step.next = "return" /\ result = RAISED_TypeError) ->
               /\ qe_pc' = "raised"
               /\ qe_stack' = <<>>
               /\ qe_attempt' = 0
               /\ qe_last' = [last EXCEPT !.kind = "raise"]
               /\ qe_hist' = hist
               /\ UNCHANGED <<qe_chunk, qe_files>>
          [] step.next = "return" /\ result.status = "success" ->
               LET u == Unwind(SubSeq(qe_stack, 1, n - 1), qe_chunk) IN
               /\ qe_files' = WriteFile(qe_files, qe_chunk, StripResult(result))
               /\ qe_stack' = u.stack
               /\ qe_chunk' = u.chunk
               /\ qe_pc' = IF u.stack = <<>> THEN "returned" ELSE "running"
               /\ qe_attempt' = 0
               /\ qe_last' = [last EXCEPT !.kind = KindOf(result), !.wrote = TRUE]
               /\ qe_hist' = [hist EXCEPT
                                !.nsuccess = IF conforms THEN @ + 1 ELSE 0]
          [] step.next = "return" /\ result.status # "success"
                /\ JsonEq(result, MESSAGE_EXCEEDED_MAXIMUM) ->
               LET halves == SplitRequestByHalf(q) IN
               /\ qe_last' = [last EXCEPT !.kind = "EXCEEDED_MAX"]
               /\ qe_hist' = hist
               /\ qe_attempt' = 0
               /\ IF n > MaxDepth
                  THEN /\ qe_pc' = "RecursionError"
                       /\ qe_stack' = <<>>
                  ELSE /\ qe_pc' = "running"
                       /\ qe_stack' =
                            Append([qe_stack EXCEPT ![n].phase = "first",
                                                    ![n].query2 = halves[2]],
                                   [query |-> halves[1], phase |-> "exec",
                                    query2 |-> halves[1]])
               /\ UNCHANGED <<qe_chunk, qe_files>>
          [] OTHER ->
               LET u == Unwind(SubSeq(qe_stack, 1, n - 1), qe_chunk) IN
               /\ qe_stack' = u.stack
               /\ qe_chunk' = u.chunk
               /\ qe_pc' = IF u.stack = <<>> THEN "returned" ELSE "running"
               /\ qe_attempt' = 0
               /\ qe_last' = [last EXCEPT !.kind = KindOf(result)]
               /\ qe_hist' = hist
               /\ UNCHANGED qe_files

NextQE == SendRequest /\ UNCHANGED <<tmVars, dcVars, caVars, qsVars, trVars, anVars>>

\* The other components at rest.
TMIdle == TMInit

InitQE == QEInit /\ TMIdle /\ DCIdle /\ CAIdle /\ QSIdle /\ TRIdle /\ ANIdle

SpecQE == InitQE /\ [][NextQE]_vars

\* ------------------------------------- claims on Query and QueryExecutor

\* C3 (as claimed): the sub-requests issued after EXCEEDED_MAX for [start,
\* end] carry [start, mid] first and [mid, end] second as their start and end
\* parameters, mid = (start + end) / 2, and never the full window of the
\* request that was halved.
C3_HalvesAreRequested ==
    qe_last.which \in {"first", "second"} =>
        LET mid == (qe_last.pps + qe_last.ppe) \div 2 IN
        /\ qe_last.which = "first" => qe_last.ps = qe_last.pps /\ qe_last.pe = mid
        /\ qe_last.which = "second" => qe_last.ps = mid /\ qe_last.pe = qe_last.ppe
        /\ <<qe_last.ps, qe_last.pe>> # <<qe_last.pps, qe_last.ppe>>

\* C4 (as claimed): with the backend that answers EXCEEDED_MAX exactly for
\* requests spanning more than L and success otherwise, the execution of a
\* chunk ends by returning, the chunk directory then holds one dataK.json per
\* successful request, and for a chunk of length 2L these are data0.json and
\* data1.json.
C4_HalvingWritesOneFilePerSuccess ==
    (qe_pc \in {"returned", "raised", "RecursionError"} /\ qe_hist.conforms) =>
        /\ qe_pc = "returned"
        /\ Cardinality(DOMAIN qe_files) = qe_hist.nsuccess
        /\ qe_hist.window = 2 * L => DOMAIN qe_files = {0, 1}

C10_RetryThenEmpty ==
    /\ qe_attempt < 3
    /\ qe_last.sent <= 3
    /\ qe_last.kind = "retry" => qe_last.transient
    /\ (qe_last.transient /\ qe_last.sent < 3) =>
         /\ qe_last.kind = "retry"
         /\ qe_pc = "running"
         /\ qe_attempt = qe_last.sent
    /\ (qe_last.transient /\ qe_last.sent = 3) => qe_last.kind = "EMPTY"

\* Three requests of one execute call failed with retried errors and the call
\* ended with the EMPTY sentinel.
C10_Witness ==
    /\ qe_last.transient
    /\ qe_last.sent = 3
    /\ qe_last.kind = "EMPTY"

\* C11: a read timeout or a chunked-encoding truncation on any attempt ends
\* the execute call at once with the EXCEEDED_MAX sentinel: the request that
\* failed so is the last of its call, also when earlier requests of the call
\* were retried.
C11_ReadTimeoutStops ==
    qe_last.got.exc \in {"ReadTimeout", "ChunkedEncodingError"} =>
        /\ qe_last.kind = "EXCEEDED_MAX"
        /\ qe_attempt = 0
        /\ ~qe_last.wrote

\* The third request of a call, after two retried failures, met a read
\* timeout and the call ended with EXCEEDED_MAX.
C11_Witness ==
    /\ qe_last.got.exc = "ReadTimeout"
    /\ qe_last.sent = 3
    /\ qe_last.kind = "EXCEEDED_MAX"

C36_IncreasingK ==
    [][qe_last'.wrote => \A j \in DOMAIN qe_files : j < qe_chunk]_vars

\* A write into a directory that already holds two files, the last of them
\* written below a nested halving.
C36_Witness ==
    /\ qe_last.wrote
    /\ Cardinality(DOMAIN qe_files) = 3
    /\ qe_last.k > 3

\* C40 (as claimed): executing a chunk ends by itself whatever the backend
\* answers: the halving recursion stops and execute_query returns (or a
\* request raises); it never runs until the interpreter's stack is exhausted,
\* in particular not when every request meets a read timeout.
C40_HalvingStops ==
    qe_pc # "RecursionError"

\* ============ DataCleaner (utilities/data_cleaner.py) and data_filter.py

\* The label sets (the "metric" maps) of the series; two maps with the same
\* keys and values are equal in Python, so a label set is one value here.
Metrics == {"a", "b"}

\* The values lists a series of a data file may hold: timestamps, the state
\* already removed by the executor.
ValueLists == { <<0>>, <<0, 60>>, <<60, 120>>, <<120, 0, 0>> }

\* The series a data file may hold.
Entries == [metric : Metrics, values : ValueLists]

\* The result lists a data file may hold: none (an empty answer), one or two
\* series; the backend answers with one entry per label set.
FileResults == {<<>>} \cup {<<e>> : e \in Entries}
                      \cup {<<e1, e2>> : <<e1, e2>> \in
                                {p \in Entries \X Entries : p[1].metric # p[2].metric}}

\* step of tier 0, as main.do_analysis passes it (main.py:130).
Step == 60

\* Mutant of SortedSeq: the elements come largest first.
RECURSIVE SortedSeq_Descending(_)
SortedSeq_Descending(S) ==
    IF S = {} THEN <<>>
    ELSE LET m == CHOOSE x \in S : \A y \in S : x >= y
         IN <<m>> \o SortedSeq_Descending(S \ {m})

\* The sorted list of the elements of a set of numbers: sorted(set(values)).
RECURSIVE SortedSeq(_)
SortedSeq(S) ==
    IF S = {} THEN <<>>
    ELSE LET m == CHOOSE x \in S : \A y \in S : x <= y
         IN <<m>> \o SortedSeq(S \ {m})

\* Mutant of RangesLoop: a gap does not end the run.
RECURSIVE RangesLoop_NoGap(_, _, _)
RangesLoop_NoGap(data, step, st) ==
    IF data = <<>> THEN st
    ELSE LET value == Head(data) IN
         RangesLoop_NoGap(Tail(data), step,
            IF ~st.some
            THEN [st EXCEPT !.some = TRUE, !.start = value, !.prev = value]
            ELSE [st EXCEPT !.prev = value])

\* The loop of data_filter.create_time_ranges over data[:-1]: st holds start,
\* prev (none: FALSE while start is None) and out.
RECURSIVE RangesLoop(_, _, _)
RangesLoop(data, step, st) ==
    IF data = <<>> THEN st
    ELSE LET value == Head(data) IN
         RangesLoop(Tail(data), step,
            IF ~st.some
            THEN [st EXCEPT !.some = TRUE, !.start = value, !.prev = value]
            ELSE IF value = st.prev THEN st
            ELSE IF value # st.prev + step
            THEN [st EXCEPT !.out = Append(@, <<st.start, st.prev - st.start>>),
                            !.start = value, !.prev = value]
            ELSE [st EXCEPT !.prev = value])

\* data_filter.create_time_ranges
create_time_ranges(data, step) ==
    IF Len(data) = 0 THEN <<>>
    ELSE LET st == RangesLoop(SubSeq(data, 1, Len(data) - 1), step,
                              [some |-> FALSE, start |-> 0, prev |-> 0, out |-> <<>>])
             value == data[Len(data)]
         IN IF ~st.some THEN <<<<value, 0>>>>
            ELSE IF value # st.prev + step
            THEN st.out \o << <<st.start, st.prev - st.start>>, <<value, 0>> >>
            ELSE Append(st.out, <<st.start, value - st.start>>)

\* DataCleaner.__assert_index_to_metrics(results) on self.data's result list
\* `data`.  The first loop breaks after its first pass, so only results[0]
\* enters a and trans.  The second loop stops at the first series of data
\* whose metric is in a and stores i = a.index(metric), the place in a (0),
\* not the place in data.  The third loop extends data[that i] or, no match
\* found, appends results[0].
AssertIndexToMetrics(data, results) ==
    IF results = <<>> THEN data
    ELSE LET first == results[1]
             found == \E j \in DOMAIN data : data[j].metric = first.metric
         IN IF found
            THEN [data EXCEPT ![1].values = @ \o first.values]
            ELSE Append(data, first)

\* The staging loop of clear_query_results over files[1:].
RECURSIVE StageFiles(_, _)
StageFiles(data, files) ==
    IF files = <<>> THEN data
    ELSE StageFiles(AssertIndexToMetrics(data, Head(files)), Tail(files))

\* DataCleaner at the call of clear_query_results: the run directory holds
\* between none and MaxFiles data files, listed in some order.
DCInit ==
    /\ dc_files \in UNION {[1..n -> FileResults] : n \in 0..MaxFiles}
    /\ dc_data = <<>>
    /\ dc_final = <<>>
    /\ dc_pc = "ready"

\* self.data of clear_query_results after its first loop over the result
\* list, for the files listed as `files` (files[0] first): every values list
\* is sorted(set(values)).
CompactedData(files) ==
    LET staged == StageFiles(Head(files), Tail(files))
    IN [i \in DOMAIN staged |-> [staged[i] EXCEPT !.values = SortedSeq(Range(@))]]

\* What clear_query_results writes to finalData.json: every values list is
\* its time ranges.
FinalData(files) ==
    LET sorted == CompactedData(files)
    IN [i \in DOMAIN sorted |->
            [sorted[i] EXCEPT !.values = create_time_ranges(@, Step)]]

\* DataCleaner.clear_query_results(path, step): self.data is the first file
\* listed (files[0]; IndexError when there is none), the others are staged
\* into it, every values list becomes sorted(set(values)) and then its time
\* ranges, and finalData.json is written.
ClearQueryResults ==
    /\ dc_pc = "ready"
    /\ IF dc_files = <<>>
       THEN /\ dc_pc' = "raised"
            /\ UNCHANGED <<dc_files, dc_data, dc_final>>
       ELSE /\ dc_data' = CompactedData(dc_files)
            /\ dc_final' = FinalData(dc_files)
            /\ dc_pc' = "done"
               /\ UNCHANGED dc_files

NextDC == ClearQueryResults /\ UNCHANGED <<tmVars, qeVars, caVars, qsVars, trVars, anVars>>

InitDC == DCInit /\ TMIdle /\ QEIdle /\ CAIdle /\ QSIdle /\ TRIdle /\ ANIdle

SpecDC == InitDC /\ [][NextDC]_vars

\* ------------------------------------------------- claims on DataCleaner

\* The label sets that occur in any entry of any file.
MetricsIn(files) == {files[f][i].metric : <<f, i>> \in
                        {<<f, i>> \in (DOMAIN files) \X (1..2) : i \in DOMAIN files[f]}}

\* The timestamps the files hold for label set m.
TimestampsOf(files, m) ==
    UNION {Range(files[f][i].values) : <<f, i>> \in
              {<<f, i>> \in (DOMAIN files) \X (1..2) :
                  i \in DOMAIN files[f] /\ files[f][i].metric = m}}

\* C6 (as claimed): after compaction, for every label set that occurs in any
\* entry of any data file, the compacted data holds exactly one series with
\* that label set, and its timestamps are exactly the union of the timestamps
\* the files hold for it.
C6_OneSeriesPerLabelSet ==
    dc_pc = "done" =>
        \A m \in MetricsIn(dc_files) :
            /\ Cardinality({i \in DOMAIN dc_data : dc_data[i].metric = m}) = 1
            /\ \A i \in DOMAIN dc_data :
                 dc_data[i].metric = m =>
                    Range(dc_data[i].values) = TimestampsOf(dc_files, m)

\* C19: in finalData.json, for every series, the starts of the ranges are
\* strictly increasing, each start is greater than the previous start plus
\* its duration, every duration is >= 0 and no timestamp is represented more
\* than once, whatever duplicates and ordering the data files held.
C19_RangesIncrease ==
    dc_pc = "done" =>
        \A i \in DOMAIN dc_final :
            LET r == dc_final[i].values IN
            /\ \A k \in DOMAIN r : r[k][2] >= 0
            /\ \A k \in 1..(Len(r) - 1) :
                /\ r[k][1] < r[k + 1][1]
                /\ r[k][1] + r[k][2] < r[k + 1][1]
            /\ \A k \in DOMAIN r, l \in DOMAIN r :
                k # l =>
                    {r[k][1] + n * Step : n \in 0..(r[k][2] \div Step)}
                        \cap {r[l][1] + n * Step : n \in 0..(r[l][2] \div Step)} = {}

\* Two files with the same label set, the first with its timestamps out of
\* order and one of them twice, were compacted to two ranges.
C19_Witness ==
    /\ dc_pc = "done"
    /\ Len(dc_files) = 2
    /\ dc_files[1] = << [metric |-> "a", values |-> <<120, 0, 0>>] >>
    /\ dc_files[2] = << [metric |-> "a", values |-> <<0>>] >>
    /\ dc_final = << [metric |-> "a", values |-> << <<0, 0>>, <<120, 0>> >>] >>

\* The same files, listed in the order p.
Relisted(files, p) == [i \in DOMAIN files |-> files[p[i]]]

\* The orders in which n files may be listed.
Listings(n) == {p \in [1..n -> 1..n] : \A i, j \in 1..n : p[i] = p[j] => i = j}

\* C20 (as claimed): compaction does not depend on the order in which the
\* file system lists the files: compacting the same data files listed in
\* another order gives the same finalData.json, the same series in the same
\* order with the same ranges.
C20_ListingOrderIrrelevant ==
    dc_pc = "done" =>
        \A p \in Listings(Len(dc_files)) :
            FinalData(Relisted(dc_files, p)) = dc_final

\* ======== CorrelationAnalyzer (analyzing/correlation_analyzer.py)

\* The clusters of the input, in the order of data.items().
ClusterSeq == <<"c1", "c2">>
Clusters == Range(ClusterSeq)

\* The alert names, in sorted order.
AlertAxis == <<"x", "y">>
AlertNames == Range(AlertAxis)

\* The alert names of one cluster, in the order of cluster_value.items().
AlertLists == { <<"x">>, <<"y">>, <<"x", "y">>, <<"y", "x">> }

\* What Series.corr gives for two different columns: a coefficient, in
\* thousandths, or nan (a constant column).
CorrValues == { [nan |-> FALSE, v |-> 1000], [nan |-> FALSE, v |-> -1000],
                [nan |-> TRUE, v |-> 0] }

\* cluster[alert_1].corr(cluster[alert_2]): a column against itself gives 1.
Corr(c, a, b) == IF a = b THEN [nan |-> FALSE, v |-> 1000] ELSE ca_in.r[c]

\* if str(res) == "nan": res = 0; float(res)
FloatOf(res) == IF res.nan THEN 0 ELSE res.v

\* self.alerts.sort(): the names are distinct.
SortAlerts(alerts) == SelectSeq(AlertAxis, LAMBDA a : a \in Range(alerts))

\* self.alerts.index(a)
AlertIndex(a) == CHOOSE i \in DOMAIN ca_alerts :
                    ca_alerts[i] = a /\ \A j \in 1..(i - 1) : ca_alerts[j] # a

\* The (alert_1, alert_2) that the two loops of
\* __calc_corrcoefficient_per_cluster visit, in order.  Iterating a DataFrame
\* gives its column labels, and cluster[indent:] is a row slice with the same
\* columns: alert_2 runs over every column for every alert_1.
PairsOf(cols) ==
    [n \in 1..(Len(cols) * Len(cols)) |->
        <<cols[((n - 1) \div Len(cols)) + 1], cols[((n - 1) % Len(cols)) + 1]>>]

\* CorrelationAnalyzer.__init__ and the call of calc_corrcoefficient_matrix.
CAInit ==
    /\ ca_in \in [alerts : [Clusters -> AlertLists], r : [Clusters -> CorrValues]]
    /\ ca_pc = "collect_start"
    /\ ca_cidx = 1
    /\ ca_tidx = 1
    /\ ca_sem = Cores
    /\ ca_st = [a \in AlertNames |-> "none"]
    /\ ca_store = <<>>
    /\ ca_alerts = <<>>
    /\ ca_dm = [c \in Clusters |-> <<>>]
    /\ ca_matrix = <<>>
    /\ ca_w = [c \in Clusters |-> [pc |-> "none", pair |-> 1, step |-> "load", reg |-> 0]]
    /\ ca_final = <<>>

\* The sample threads and cluster threads that were started and have not
\* ended.
RunningSampleThreads == {a \in AlertNames : ca_st[a] \in {"running", "registered"}}
RunningClusterThreads == {c \in Clusters : ca_w[c].pc = "run"}

\* collect_alert_samples, one pass of "for thread in threads: with
\* self.semaphore: thread.start()": the main thread takes a permit, starts the
\* thread and gives the permit back.
StartSampleThread ==
    /\ ca_pc = "collect_start"
    /\ ca_sem > 0
    /\ LET c == ClusterSeq[ca_cidx]
           a == ca_in.alerts[c][ca_tidx]
       IN /\ ca_st' = [ca_st EXCEPT ![a] = "running"]
          /\ ca_tidx' = ca_tidx + 1
          /\ ca_pc' = IF ca_tidx = Len(ca_in.alerts[c]) THEN "collect_join"
                      ELSE "collect_start"
    /\ UNCHANGED <<ca_in, ca_cidx, ca_sem, ca_store, ca_alerts, ca_dm, ca_matrix,
                   ca_w, ca_final>>

\* __get_time_samples, first statement: the alert key joins self.alerts.
SampleRegister(a) ==
    /\ ca_st[a] = "running"
    /\ ca_st' = [ca_st EXCEPT ![a] = "registered"]
    /\ ca_alerts' = IF a \in Range(ca_alerts) THEN ca_alerts ELSE Append(ca_alerts, a)
    /\ UNCHANGED <<ca_in, ca_pc, ca_cidx, ca_tidx, ca_sem, ca_store, ca_dm,
                   ca_matrix, ca_w, ca_final>>

\* __get_time_samples, the rest: the samples are built and stored under the
\* alert key; the thread ends.
SampleStore(a) ==
    /\ ca_st[a] = "registered"
    /\ ca_st' = [ca_st EXCEPT ![a] = "finished"]
    /\ ca_store' = Append(ca_store, a)
    /\ UNCHANGED <<ca_in, ca_pc, ca_cidx, ca_tidx, ca_sem, ca_alerts, ca_dm,
                   ca_matrix, ca_w, ca_final>>

\* collect_alert_samples: every thread of the cluster is joined and
\* data_matrix[cluster] = pd.concat(__store, axis=1); after the last cluster
\* self.alerts is sorted and __create_coefficient_matrix builds the matrix of
\* [0, 0] cells.
JoinSamples ==
    /\ ca_pc = "collect_join"
    /\ LET c == ClusterSeq[ca_cidx] IN
        /\ \A a \in Range(ca_in.alerts[c]) : ca_st[a] = "finished"
        /\ ca_dm' = [ca_dm EXCEPT ![c] = ca_store]
    /\ ca_store' = <<>>
    /\ ca_st' = [a \in AlertNames |-> "none"]
    /\ ca_tidx' = 1
    /\ IF ca_cidx < Len(ClusterSeq)
       THEN /\ ca_cidx' = ca_cidx + 1
            /\ ca_pc' = "collect_start"
            /\ UNCHANGED <<ca_alerts, ca_matrix>>
       ELSE /\ ca_cidx' = 1
            /\ ca_pc' = "corr_start"
            /\ ca_alerts' = SortAlerts(ca_alerts)
            /\ ca_matrix' = [p \in (1..Len(ca_alerts)) \X (1..Len(ca_alerts)) |->
                                [sum |-> 0, count |-> 0]]
    /\ UNCHANGED <<ca_in, ca_sem, ca_w, ca_final>>

\* __create_coefficient_matrix, one pass of "for thread in threads: with
\* self.semaphore: thread.start()".
StartClusterThread ==
    /\ ca_pc = "corr_start"
    /\ ca_sem > 0
    /\ ca_w' = [ca_w EXCEPT ![ClusterSeq[ca_cidx]].pc = "run"]
    /\ ca_cidx' = ca_cidx + 1
    /\ ca_pc' = IF ca_cidx = Len(ClusterSeq) THEN "corr_join" ELSE "corr_start"
    /\ UNCHANGED <<ca_in, ca_tidx, ca_sem, ca_st, ca_store, ca_alerts, ca_dm,
                   ca_matrix, ca_final>>

\* The cell the thread of cluster c is at.
CellOf(c) ==
    LET pair == PairsOf(ca_dm[c])[ca_w[c].pair]
    IN <<AlertIndex(pair[1]), AlertIndex(pair[2])>>

\* matrix[i][j][0] += float(res), first part: the coefficient is computed and
\* the cell's sum is read (BINARY_SUBSCR), before float(res) is called.
WorkerLoadSum(c) ==
    /\ ca_w[c].pc = "run"
    /\ ca_w[c].step = "load"
    /\ ca_w' = [ca_w EXCEPT ![c].reg = ca_matrix[CellOf(c)].sum, ![c].step = "store"]
    /\ UNCHANGED <<ca_in, ca_pc, ca_cidx, ca_tidx, ca_sem, ca_st, ca_store,
                   ca_alerts, ca_dm, ca_matrix, ca_final>>

\* matrix[i][j][0] += float(res), second part: after the call of float the
\* sum read before is added to and stored (STORE_SUBSCR).
WorkerStoreSum(c) ==
    /\ ca_w[c].pc = "run"
    /\ ca_w[c].step = "store"
    /\ LET pair == PairsOf(ca_dm[c])[ca_w[c].pair] IN
        ca_matrix' = [ca_matrix EXCEPT ![CellOf(c)].sum =
                        ca_w[c].reg + FloatOf(Corr(c, pair[1], pair[2]))]
    /\ ca_w' = [ca_w EXCEPT ![c].step = "count"]
    /\ UNCHANGED <<ca_in, ca_pc, ca_cidx, ca_tidx, ca_sem, ca_st, ca_store,
                   ca_alerts, ca_dm, ca_final>>

\* matrix[i][j][1] += 1: no call lies between its read and its write, so the
\* interpreter lock makes it one step; then the loops go on, or the thread
\* ends.
WorkerAddCount(c) ==
    /\ ca_w[c].pc = "run"
    /\ ca_w[c].step = "count"
    /\ ca_matrix' = [ca_matrix EXCEPT ![CellOf(c)].count = @ + 1]
    /\ ca_w' = [ca_w EXCEPT
                  ![c].step = "load",
                  ![c].pair = @ + 1,
                  ![c].pc = IF ca_w[c].pair = Len(PairsOf(ca_dm[c])) THEN "done" ELSE "run"]
    /\ UNCHANGED <<ca_in, ca_pc, ca_cidx, ca_tidx, ca_sem, ca_st, ca_store,
                   ca_alerts, ca_dm, ca_final>>

\* __create_coefficient_matrix: every cluster thread is joined.
JoinWorkers ==
    /\ ca_pc = "corr_join"
    /\ \A c \in Clusters : ca_w[c].pc = "done"
    /\ ca_pc' = "joined"
    /\ UNCHANGED <<ca_in, ca_cidx, ca_tidx, ca_sem, ca_st, ca_store, ca_alerts,
                   ca_dm, ca_matrix, ca_w, ca_final>>

\* __calc_matrix_results: every cell becomes sum / count, or 0 when its count
\* is 0.
CalcMatrixResults ==
    /\ ca_pc = "joined"
    /\ ca_final' = [p \in DOMAIN ca_matrix |->
                      IF ca_matrix[p].count = 0 THEN 0
                      ELSE ca_matrix[p].sum \div ca_matrix[p].count]
    /\ ca_pc' = "done"
    /\ UNCHANGED <<ca_in, ca_cidx, ca_tidx, ca_sem, ca_st, ca_store, ca_alerts,
                   ca_dm, ca_matrix, ca_w>>

NextCA ==
    /\ \/ StartSampleThread
       \/ \E a \in AlertNames : SampleRegister(a)
       \/ \E a \in AlertNames : SampleStore(a)
       \/ JoinSamples
       \/ StartClusterThread
       \/ \E c \in Clusters : WorkerLoadSum(c)
       \/ \E c \in Clusters : WorkerStoreSum(c)
       \/ \E c \in Clusters : WorkerAddCount(c)
       \/ JoinWorkers
       \/ CalcMatrixResults
    /\ UNCHANGED <<tmVars, qeVars, dcVars, qsVars, trVars, anVars>>

InitCA == CAInit /\ TMIdle /\ QEIdle /\ DCIdle /\ QSIdle /\ TRIdle /\ ANIdle

SpecCA == InitCA /\ [][NextCA]_vars

\* ----------------------------------------- claims on CorrelationAnalyzer

\* The clusters whose data holds both alert a and alert b.
ClustersWith(a, b) == {c \in Clusters : {a, b} \subseteq Range(ca_in.alerts[c])}

\* The sum of the coefficients of (a, b) over the clusters in cs.
RECURSIVE CoefficientSum(_, _, _)
CoefficientSum(cs, a, b) ==
    IF cs = {} THEN 0
    ELSE LET c == CHOOSE x \in cs : TRUE
         IN FloatOf(Corr(c, a, b)) + CoefficientSum(cs \ {c}, a, b)

\* C7 (as claimed): when every cluster's worker has ended, the cell of each
\* pair (a, b) has a count equal to the number of clusters that contributed a
\* coefficient for the pair and a sum equal to the sum of those coefficients:
\* no update is lost under any interleaving.
C7_NoLostUpdate ==
    ca_pc = "joined" =>
        \A a \in Range(ca_alerts), b \in Range(ca_alerts) :
            LET cell == ca_matrix[<<AlertIndex(a), AlertIndex(b)>>] IN
            /\ cell.count = Cardinality(ClustersWith(a, b))
            /\ cell.sum = CoefficientSum(ClustersWith(a, b), a, b)

\* C8 (as claimed): while samples are built and while coefficients are
\* computed, the number of worker threads that are running is at most cores.
C8_WorkersAtMostCores ==
    Cardinality(RunningSampleThreads) + Cardinality(RunningClusterThreads) <= Cores

\* The mean of the coefficients of (a, b) over the clusters that hold both,
\* 0 when no cluster does.
MeanCoefficient(a, b) ==
    IF ClustersWith(a, b) = {} THEN 0
    ELSE CoefficientSum(ClustersWith(a, b), a, b) \div Cardinality(ClustersWith(a, b))

\* C26 (as claimed): after all clusters finish, the final value of an alert
\* pair that occurs together in K >= 1 clusters with coefficients r1..rK is
\* (r1 + ... + rK) / K, and the final value of a pair that occurs together
\* in no cluster is 0.
C26_FinalIsMean ==
    ca_pc = "done" =>
        \A a \in Range(ca_alerts), b \in Range(ca_alerts) :
            ca_final[<<AlertIndex(a), AlertIndex(b)>>] = MeanCoefficient(a, b)

\* C27 (as claimed): in the final matrix the cell of (a, b) equals the cell
\* of (b, a) for every pair of alert names of the axis.
C27_FinalIsSymmetric ==
    ca_pc = "done" =>
        \A i \in DOMAIN ca_alerts, j \in DOMAIN ca_alerts :
            ca_final[<<i, j>>] = ca_final[<<j, i>>]

\* The alert names that occur in some cluster of the input.
AlertsOfInput == UNION {Range(ca_in.alerts[c]) : c \in Clusters}

\* The final matrix of the execution in which every thread runs to its end
\* before the next one is started.
SequentialFinal ==
    LET axis == SelectSeq(AlertAxis, LAMBDA a : a \in AlertsOfInput)
    IN [p \in (1..Len(axis)) \X (1..Len(axis)) |->
            MeanCoefficient(axis[p[1]], axis[p[2]])]

\* C28 (as claimed): the final matrix does not depend on the order in which
\* the cluster threads and the sample threads run: every execution on the
\* same input ends with the sorted axis, each alert name once, and with the
\* cell values of the sequential execution.
C28_FinalIsDeterministic ==
    ca_pc = "done" =>
        /\ ca_alerts = SelectSeq(AlertAxis, LAMBDA a : a \in AlertsOfInput)
        /\ ca_final = SequentialFinal

\* ============ QuerySplitter and Query (utilities/query_management.py)

\* td(days=1), in seconds.
Day == 24 * 3600

\* dt.now(tz.utc) of the run, as a timestamp.
Now == 12 * Day

\* The global_start and global_end a Query may be given.
QSTimes == {0, Day, 3 * Day, 4 * Day, 9 * Day}

\* The thresholds, in days; 0 stands for None too ("not threshold").
Thresholds == {0, 2, 5, 10, 11, 13}

\* The separators, in seconds.
Separators == {Day, 3 * Day}

\* The process's time zone: UTC (shift 0), or a zone that is one hour ahead
\* of UTC until daylight saving time ends at timestamp DstEnd.
ZoneShifts == {0, 3600}
DstEnd == 2 * Day + 3600

\* dt.fromtimestamp(t): the naive local time of t; fold marks the second
\* pass of the hour that the clock repeats.
FromTimestamp(t, shift) ==
    [wall |-> IF t < DstEnd THEN t + shift ELSE t,
     fold |-> IF t >= DstEnd /\ t < DstEnd + shift THEN 1 ELSE 0]

\* naive.timestamp(): the local time read in the process's zone.
Timestamp(d, shift) ==
    IF d.wall < DstEnd THEN d.wall - shift
    ELSE IF d.wall < DstEnd + shift
         THEN (IF d.fold = 1 THEN d.wall ELSE d.wall - shift)
         ELSE d.wall

\* naive + timedelta(seconds=n): wall clock arithmetic, fold 0.
PlusSeconds(d, n) == [wall |-> d.wall + n, fold |-> 0]

\* str(n) for n >= 0, as character codes.
RECURSIVE DigitsOf(_)
DigitsOf(n) == IF n < 10 THEN <<48 + n>> ELSE Append(DigitsOf(n \div 10), 48 + (n % 10))

\* str(float(n)) of a whole number of seconds: "-86400.0".
StrOfFloat(n) ==
    (IF n < 0 THEN <<45>> ELSE <<>>) \o DigitsOf(IF n < 0 THEN 0 - n ELSE n) \o <<46, 48>>

\* Python's a > b on two str.
RECURSIVE StrGreater(_, _)
StrGreater(a, b) ==
    IF a = <<>> THEN FALSE
    ELSE IF b = <<>> THEN TRUE
    ELSE IF a[1] # b[1] THEN a[1] > b[1]
    ELSE StrGreater(Tail(a), Tail(b))

\* d.update(u) on dicts.
DictUpdate(d, u) ==
    [k \in DOMAIN d \cup DOMAIN u |-> IF k \in DOMAIN u THEN u[k] ELSE d[k]]

\* None, where a Query may stand.
NoQuery == [none |-> TRUE, gs |-> 0, ge |-> 0, kwargs |-> 0, params |-> 0]

\* Query.__parse_request_data: a new params dict; step and
\* max_source_resolution come from kwargs["params"] when it has them.
ParseRequestData(heap, start, end, kw) ==
    LET given == IF "params" \in DOMAIN heap[kw] THEN heap[heap[kw].params] ELSE <<>>
    IN [start |-> start, end |-> end,
        step |-> IF "step" \in DOMAIN given THEN given.step ELSE "60",
        max_source_resolution |->
            IF "max_source_resolution" \in DOMAIN given
            THEN given.max_source_resolution ELSE "0s"]

\* Query(base_url, start, end, kwargs): self.kwargs is the dict given, not a
\* copy; self.params is a new dict.
NewQuery(heap, start, end, kw) ==
    [heap |-> Append(heap, ParseRequestData(heap, start, end, kw)),
     query |-> [none |-> FALSE, gs |-> start, ge |-> end, kwargs |-> kw,
                params |-> Len(heap) + 1]]

\* Mutant of DeepCopyKwargs: the dict itself is handed on.
DeepCopyKwargs_Alias(heap, kw) == [heap |-> heap, id |-> kw]

\* copy.deepcopy(kwargs): a new dict, and a new dict for kwargs["params"].
DeepCopyKwargs(heap, kw) ==
    IF "params" \in DOMAIN heap[kw]
    THEN LET h1 == Append(heap, heap[heap[kw].params])
             h2 == Append(h1, [heap[kw] EXCEPT !.params = Len(h1)])
         IN [heap |-> h2, id |-> Len(h2)]
    ELSE [heap |-> Append(heap, heap[kw]), id |-> Len(heap) + 1]

\* copy.deepcopy(query)
DeepCopyQuery(heap, q) ==
    LET kw == DeepCopyKwargs(heap, q.kwargs)
        h == Append(kw.heap, kw.heap[q.params])
    IN [heap |-> h, query |-> [q EXCEPT !.kwargs = kw.id, !.params = Len(h)]]

\* Query.set_start and Query.set_end (params is never None after __init__).
SetStart(heap, q, v) ==
    [heap |-> [heap EXCEPT ![q.params].start = v], query |-> [q EXCEPT !.gs = v]]
SetEnd(heap, q, v) ==
    [heap |-> [heap EXCEPT ![q.params].end = v], query |-> [q EXCEPT !.ge = v]]

\* Mutant of TierOneParams: the step of tier 0.
TierOneParams_Step60 == [step |-> "60", max_source_resolution |-> "1h"]

\* params "for 2nd query" of split_by_treshold.
TierOneParams == [step |-> "3600", max_source_resolution |-> "1h"]

\* QuerySplitter.split_by_treshold(query, threshold)
SplitByTreshold(heap, query, threshold) ==
    IF threshold = 0 THEN [heap |-> heap, out |-> <<query, NoQuery>>]
    ELSE LET start == query.gs
             end == query.ge
             split == Now - threshold * Day
         IN IF end > split /\ split > start
            THEN LET q1 == NewQuery(heap, split, end, query.kwargs)
                     kw == DeepCopyKwargs(q1.heap, query.kwargs)
                     h == IF "params" \in DOMAIN kw.heap[kw.id]
                          THEN [kw.heap EXCEPT ![kw.heap[kw.id].params] =
                                                  DictUpdate(@, TierOneParams)]
                          ELSE [Append(kw.heap, TierOneParams) EXCEPT ![kw.id] =
                                  DictUpdate(@, [params |-> Len(kw.heap) + 1])]
                     q2 == NewQuery(h, start, split, kw.id)
                 IN [heap |-> q2.heap, out |-> <<q1.query, q2.query>>]
            ELSE IF StrGreater(StrOfFloat(split), StrOfFloat(end))
                 THEN [heap |-> heap, out |-> <<NoQuery, query>>]
            ELSE IF StrGreater(StrOfFloat(start), StrOfFloat(split))
                 THEN [heap |-> heap, out |-> <<query, NoQuery>>]
            ELSE [heap |-> heap, out |-> <<>>]

\* QuerySplitter.__create_query_copy
CreateQueryCopy(heap, query, start, end, shift) ==
    LET c == DeepCopyQuery(heap, query)
        a == SetStart(c.heap, c.query, Timestamp(start, shift))
    IN SetEnd(a.heap, a.query, Timestamp(end, shift))

\* The while loop of split_by_separator and the last chunk after it.
RECURSIVE SeparatorLoop(_, _, _, _, _, _, _, _)
SeparatorLoop(heap, query, start, end, global_end, separator, shift, out) ==
    IF end.wall < global_end.wall
    THEN LET c == CreateQueryCopy(heap, query, start, end, shift)
         IN SeparatorLoop(c.heap, query, end, PlusSeconds(end, separator),
                          global_end, separator, shift, Append(out, c.query))
    ELSE LET last == PlusSeconds(end, global_end.wall - end.wall)
             c == CreateQueryCopy(heap, query, start, last, shift)
         IN [heap |-> c.heap, out |-> Append(out, c.query)]

\* QuerySplitter.split_by_separator(query, separator): the chunks, in the
\* order of their keys 0, 1, ...
SplitBySeparator(heap, query, separator, shift) ==
    LET start == FromTimestamp(query.gs, shift)
        global_end == FromTimestamp(query.ge, shift)
    IN SeparatorLoop(heap, query, start, PlusSeconds(start, separator),
                     global_end, separator, shift, <<>>)

\* The kwargs a Query is made with: {} or {"params": {"step": "300"}}.
KwargsGiven == {"empty", "step"}

\* main.query_data up to the split: the Query is made.
QSInit ==
    /\ qs_in \in {i \in [start : QSTimes, end : QSTimes, threshold : Thresholds,
                         separator : Separators, shift : ZoneShifts,
                         kwargs : KwargsGiven] : i.start < i.end}
    /\ LET h0 == IF qs_in.kwargs = "empty" THEN << <<>> >>
                 ELSE << [step |-> "300"], [params |-> 1] >>
           q == NewQuery(h0, qs_in.start, qs_in.end, Len(h0))
       IN /\ qs_heap = q.heap
          /\ qs_query = q.query
    /\ qs_out = <<>>
    /\ qs_pc = "created"
    /\ qs_before = <<>>

\* main.query_data: QuerySplitter.split_by_treshold
DoSplitByTreshold ==
    /\ qs_pc = "created"
    /\ LET r == SplitByTreshold(qs_heap, qs_query, qs_in.threshold)
       IN /\ qs_heap' = r.heap
          /\ qs_out' = r.out
    /\ qs_pc' = "threshold"
    /\ UNCHANGED <<qs_in, qs_query, qs_before>>

\* QueryManager.create_query_objects: QuerySplitter.split_by_separator
DoSplitBySeparator ==
    /\ qs_pc = "created"
    /\ LET r == SplitBySeparator(qs_heap, qs_query, qs_in.separator, qs_in.shift)
       IN /\ qs_heap' = r.heap
          /\ qs_out' = r.out
    /\ qs_pc' = "separator"
    /\ UNCHANGED <<qs_in, qs_query, qs_before>>

\* What a caller may change of a spec it was given: set_start, set_end, an
\* entry of params, an entry of kwargs, an entry of kwargs["params"].
Changes == {"set_start", "set_end", "params", "kwargs", "kwargs.params"}

ChangedHeap(heap, q, what) ==
    CASE what = "set_start" -> SetStart(heap, q, q.gs + 1)
      [] what = "set_end" -> SetEnd(heap, q, q.ge + 1)
      [] what = "params" ->
            [heap |-> [heap EXCEPT ![q.params].step = "1"], query |-> q]
      [] what = "kwargs" ->
            [heap |-> [heap EXCEPT ![q.kwargs] = DictUpdate(@, [target |-> "query"])],
             query |-> q]
      [] OTHER ->
            [heap |-> [heap EXCEPT ![heap[q.kwargs].params] =
                                      DictUpdate(@, [step |-> "1"])],
             query |-> q]

\* A caller changes something of spec number i of the split's result.
ChangeSpec ==
    /\ qs_pc \in {"threshold", "separator"}
    /\ \E i \in DOMAIN qs_out, what \in Changes :
        /\ ~qs_out[i].none
        /\ what = "kwargs.params" => "params" \in DOMAIN qs_heap[qs_out[i].kwargs]
        /\ LET r == ChangedHeap(qs_heap, qs_out[i], what)
           IN /\ qs_heap' = r.heap
              /\ qs_out' = [qs_out EXCEPT ![i] = r.query]
              /\ qs_query' = IF qs_out[i] = qs_query THEN r.query ELSE qs_query
        /\ qs_before' = [heap |-> qs_heap, out |-> qs_out, query |-> qs_query,
                         who |-> i, what |-> what, from |-> qs_pc]
    /\ qs_pc' = "changed"
    /\ UNCHANGED qs_in

NextQS ==
    /\ \/ DoSplitByTreshold
       \/ DoSplitBySeparator
       \/ ChangeSpec
    /\ UNCHANGED <<tmVars, qeVars, dcVars, caVars, trVars, anVars>>

InitQS == QSInit /\ TMIdle /\ QEIdle /\ DCIdle /\ CAIdle /\ TRIdle /\ ANIdle

SpecQS == InitQS /\ [][NextQS]_vars

\* ------------------------------------------------ claims on QuerySplitter

\* now - T of the call, as a timestamp.
SplitPoint == Now - qs_in.threshold * Day

\* C13: when now - T lies strictly between global_start and global_end, the
\* threshold split returns exactly two specs: the first covers [now - T,
\* global_end] with the step unchanged, the second covers [global_start,
\* now - T] with step 3600 and max_source_resolution 1h, and the end of the
\* second is the start of the first.
C13_TresholdSplitsInTwo ==
    (qs_pc = "threshold" /\ qs_in.threshold > 0
        /\ qs_in.start < SplitPoint /\ SplitPoint < qs_in.end) =>
        /\ Len(qs_out) = 2
        /\ ~qs_out[1].none /\ ~qs_out[2].none
        /\ qs_out[1].gs = SplitPoint /\ qs_out[1].ge = qs_in.end
        /\ qs_heap[qs_out[1].params].start = SplitPoint
        /\ qs_heap[qs_out[1].params].end = qs_in.end
        /\ qs_heap[qs_out[1].params].step = qs_heap[qs_query.params].step
        /\ qs_out[2].gs = qs_in.start /\ qs_out[2].ge = SplitPoint
        /\ qs_heap[qs_out[2].params].start = qs_in.start
        /\ qs_heap[qs_out[2].params].end = SplitPoint
        /\ qs_heap[qs_out[2].params].step = "3600"
        /\ qs_heap[qs_out[2].params].max_source_resolution = "1h"
        /\ qs_out[2].ge = qs_out[1].gs

\* A query made with a step of its own was split in two at now - T.
C13_Witness ==
    /\ qs_pc = "threshold"
    /\ qs_in.kwargs = "step"
    /\ qs_in.start < SplitPoint /\ SplitPoint < qs_in.end
    /\ Len(qs_out) = 2

\* C14 (as claimed): comparing timestamps as numbers, the threshold split
\* returns (spec, none) with T unset, (none, spec) with now - T later than
\* the end, and (spec, none) with now - T earlier than global_start.
C14_TresholdDegenerates ==
    qs_pc = "threshold" =>
        /\ qs_in.threshold = 0 => qs_out = <<qs_query, NoQuery>>
        /\ (qs_in.threshold > 0 /\ SplitPoint > qs_in.end) =>
                qs_out = <<NoQuery, qs_query>>
        /\ (qs_in.threshold > 0 /\ SplitPoint < qs_in.start) =>
                qs_out = <<qs_query, NoQuery>>

\* C39 (as claimed): for every global_start, global_end and threshold, also
\* with now - T equal to global_start or to global_end, the threshold split
\* returns exactly two entries, each a spec or none.
C39_AlwaysTwoEntries ==
    qs_pc = "threshold" => Len(qs_out) = 2

\* C15 (as claimed): for global_start < global_end and separator S > 0 the
\* chunks, numbered from 0 without a hole, start at global_start, each end is
\* the next start, the last ends at global_end, every chunk has 0 < end -
\* start <= S, and each chunk's start and end parameters are its boundaries.
C15_SeparatorChunks ==
    qs_pc = "separator" =>
        /\ Len(qs_out) >= 1
        /\ qs_out[1].gs = qs_in.start
        /\ qs_out[Len(qs_out)].ge = qs_in.end
        /\ \A i \in 1..(Len(qs_out) - 1) : qs_out[i].ge = qs_out[i + 1].gs
        /\ \A i \in DOMAIN qs_out :
            /\ ~qs_out[i].none
            /\ 0 < qs_out[i].ge - qs_out[i].gs
            /\ qs_out[i].ge - qs_out[i].gs <= qs_in.separator
            /\ qs_heap[qs_out[i].params].start = qs_out[i].gs
            /\ qs_heap[qs_out[i].params].end = qs_out[i].ge

\* The keys of the dicts of a Query.
DictKeys == {"start", "end", "step", "max_source_resolution", "target", "params"}

\* A dict as its entries, key by key.
DictView(d) == [k \in DictKeys |-> IF k \in DOMAIN d THEN d[k] ELSE ABSENT]

\* All that a spec holds: its window, its params, its kwargs and
\* kwargs["params"].
QueryValue(heap, q) ==
    <<q.gs, q.ge, DictView(heap[q.params]), DictView(heap[q.kwargs]),
      IF "params" \in DOMAIN heap[q.kwargs]
      THEN DictView(heap[heap[q.kwargs].params]) ELSE DictView(<<>>)>>

TRSteps == {1, 2}

\* The sorted timestamp lists, duplicates allowed, of up to MaxLen elements.
SortedLists ==
    UNION {{d \in [1..n -> 0..MaxTs] : \A i \in 1..(n - 1) : d[i] <= d[i + 1]} :
            n \in 0..MaxLen}

\* A caller holds a sorted list and a step.
TRInit ==
    /\ tr_data \in SortedLists
    /\ tr_step \in TRSteps
    /\ tr_out = <<>>
    /\ tr_pc = "called"

\* create_time_ranges(data, step) returns.
CreateTimeRanges ==
    /\ tr_pc = "called"
    /\ tr_out' = create_time_ranges(tr_data, tr_step)
    /\ tr_pc' = "returned"
    /\ UNCHANGED <<tr_data, tr_step>>

NextTR == CreateTimeRanges /\ UNCHANGED <<tmVars, qeVars, dcVars, caVars, qsVars, anVars>>

InitTR == TRInit /\ TMIdle /\ QEIdle /\ DCIdle /\ CAIdle /\ QSIdle /\ ANIdle

SpecTR == InitTR /\ [][NextTR]_vars

\* ------------------------------------------- claims on create_time_ranges

\* The timestamps a pair (start, duration) stands for on the grid of step.
Expand(pair, step) == {pair[1] + k * step : k \in 0..(pair[2] \div step)}

StrictlyIncreasing(d) == \A i \in 1..(Len(d) - 1) : d[i] < d[i + 1]

\* The place of timestamp t in the list d.
PlaceOf(d, t) == CHOOSE i \in DOMAIN d : d[i] = t

\* C17: for a strictly increasing list and step S the encoder returns, in
\* input order, one pair (t_start, t_end - t_start) per maximal run of
\* timestamps spaced exactly S apart, an isolated timestamp as (t, 0), the
\* empty list for empty input; expanding the pairs gives back the input set.
C17_RunsOfTheGrid ==
    (tr_pc = "returned" /\ StrictlyIncreasing(tr_data)) =>
        LET first(i) == tr_out[i][1]
            last(i) == tr_out[i][1] + tr_out[i][2]
        IN
        /\ tr_data = <<>> <=> tr_out = <<>>
        /\ UNION {Expand(tr_out[i], tr_step) : i \in DOMAIN tr_out} = Range(tr_data)
        /\ \A i \in DOMAIN tr_out :
            /\ tr_out[i][2] >= 0
            /\ tr_out[i][2] % tr_step = 0
            /\ first(i) \in Range(tr_data) /\ last(i) \in Range(tr_data)
            \* the run: neighbours in the list, each S after the one before
            /\ \A k \in PlaceOf(tr_data, first(i))..(PlaceOf(tr_data, last(i)) - 1) :
                    tr_data[k + 1] = tr_data[k] + tr_step
            \* maximal: the runs follow one another and no two could be one
            /\ PlaceOf(tr_data, first(i)) =
                    IF i = 1 THEN 1 ELSE PlaceOf(tr_data, last(i - 1)) + 1
            /\ i > 1 => first(i) # last(i - 1) + tr_step
        /\ tr_out # <<>> => PlaceOf(tr_data, last(Len(tr_out))) = Len(tr_data)

\* A list with a run of two, then an isolated timestamp, was encoded.
C17_Witness ==
    /\ tr_pc = "returned"
    /\ StrictlyIncreasing(tr_data)
    /\ Len(tr_out) = 2
    /\ tr_out[1][2] > 0
    /\ tr_out[2][2] = 0

\* data with element i once more, next to it.
WithDuplicate(d, i) == SubSeq(d, 1, i) \o <<d[i]>> \o SubSeq(d, i + 1, Len(d))

\* C18 (as claimed): for a sorted list, a duplicate of any element put next
\* to it, the first and the last included, does not change the encoder's
\* output.
C18_DuplicateChangesNothing ==
    tr_pc = "returned" =>
        \A i \in DOMAIN tr_data :
            create_time_ranges(WithDuplicate(tr_data, i), tr_step) = tr_out

\* ========= the stages on a run directory (main.py, analyzing/analyzer.py)

\* The group directories a run directory may hold, and the data files of a
\* group directory.
GroupDirs == {"group0", "group1"}
DataFiles == {"data0.json", "data1.json"}

\* The files the stages write into the run directory.
Artifacts == {"finalData.json", "alertMeanDurations.json", "filteredData.json",
              "corrcoefficient_matrix.json", "correlating_alerts.json"}

\* The producing stages, and the artifact each one writes.
Stages == {"clear_query_results", "get_mean_duration_per_alertname",
           "group_alert_timeseries_per_cluster", "correlate_data",
           "create_alert_corrrelation_list"}

ArtifactOf(stage) ==
    CASE stage = "clear_query_results" -> "finalData.json"
      [] stage = "get_mean_duration_per_alertname" -> "alertMeanDurations.json"
      [] stage = "group_alert_timeseries_per_cluster" -> "filteredData.json"
      [] stage = "correlate_data" -> "corrcoefficient_matrix.json"
      [] stage = "create_alert_corrrelation_list" -> "correlating_alerts.json"

\* os.listdir(path) of the run directory, as a set.
ListDir == (DOMAIN pl_groups) \cup pl_files

\* What a call of a stage did: had says whether the stage's artifact was in
\* the run directory when the stage was called.
Called(stage, computed, wrote, raised) ==
    [stage |-> stage, had |-> ArtifactOf(stage) \in pl_files,
     computed |-> computed, wrote |-> wrote, raised |-> raised]

\* A run directory as a run finds it: group directories with the data files
\* of the download, and the artifacts an earlier run left behind.
PLInit ==
    /\ pl_groups \in UNION {[g -> SUBSET DataFiles] : g \in SUBSET GroupDirs}
    /\ pl_files \in SUBSET Artifacts
    /\ pl_shape \in (IF "finalData.json" \in pl_files THEN {"object", "list"}
                     ELSE {"none"})
    /\ pl_last = [stage |-> "none", had |-> FALSE, computed |-> FALSE,
                  wrote |-> FALSE, raised |-> "none"]

\* DataCleaner.clear_query_results: the data files of every entry of the run
\* directory whose name starts with "group" are listed; files[0] raises
\* IndexError when there is none; else the files are compacted and
\* finalData.json is written with the whole response object.  Nothing is
\* deleted.
PLClearQueryResults ==
    LET files == {<<g, f>> \in GroupDirs \X DataFiles :
                    g \in DOMAIN pl_groups /\ f \in pl_groups[g]}
    IN IF files = {}
       THEN /\ pl_last' = Called("clear_query_results", FALSE, FALSE, "IndexError")
            /\ UNCHANGED <<pl_groups, pl_files, pl_shape>>
       ELSE /\ pl_files' = pl_files \cup {"finalData.json"}
            /\ pl_shape' = "object"
            /\ pl_last' = Called("clear_query_results", TRUE, TRUE, "none")
            /\ UNCHANGED pl_groups

\* "for result in results" / "for alert in data" over what finalData.json
\* holds, then result["metric"]: the iteration of the response object gives
\* its keys, which are strings, and indexing a string by "metric" raises
\* TypeError.
ReadSeries ==
    IF "finalData.json" \notin pl_files THEN "FileNotFoundError"
    ELSE IF pl_shape = "object" THEN "TypeError"
    ELSE "none"

\* duration_analyzer.get_mean_duration_per_alertname: finalData.json is
\* loaded, the means are computed and alertMeanDurations.json is written.
GetMeanDurationPerAlertname ==
    /\ IF ReadSeries # "none"
       THEN /\ pl_last' = Called("get_mean_duration_per_alertname", FALSE, FALSE,
                                 ReadSeries)
            /\ UNCHANGED pl_files
       ELSE /\ pl_files' = pl_files \cup {"alertMeanDurations.json"}
            /\ pl_last' = Called("get_mean_duration_per_alertname", TRUE, TRUE,
                                 "none")
    /\ UNCHANGED <<pl_groups, pl_shape>>

\* analyzer.group_alert_timeseries_per_cluster: filteredData.json is loaded
\* when it exists; else filtering(path) loads finalData.json, groups it and
\* writes filteredData.json.
GroupAlertTimeseriesPerCluster ==
    /\ IF "filteredData.json" \in pl_files
       THEN /\ pl_last' = Called("group_alert_timeseries_per_cluster", FALSE,
                                 FALSE, "none")
            /\ UNCHANGED pl_files
       ELSE IF ReadSeries # "none"
       THEN /\ pl_last' = Called("group_alert_timeseries_per_cluster", FALSE,
                                 FALSE, ReadSeries)
            /\ UNCHANGED pl_files
       ELSE /\ pl_files' = pl_files \cup {"filteredData.json"}
            /\ pl_last' = Called("group_alert_timeseries_per_cluster", TRUE,
                                 TRUE, "none")
    /\ UNCHANGED <<pl_groups, pl_shape>>

\* analyzer.correlate_data: the matrix is computed from the result given and
\* corrcoefficient_matrix.json is written when the file does not exist; else
\* the file is loaded.
CorrelateData ==
    /\ IF "corrcoefficient_matrix.json" \notin pl_files
       THEN /\ pl_files' = pl_files \cup {"corrcoefficient_matrix.json"}
            /\ pl_last' = Called("correlate_data", TRUE, TRUE, "none")
       ELSE /\ pl_last' = Called("correlate_data", FALSE, FALSE, "none")
            /\ UNCHANGED pl_files
    /\ UNCHANGED <<pl_groups, pl_shape>>

\* analyzer.create_alert_corrrelation_list: the dict is built from the alerts
\* and the matrix given and correlating_alerts.json is written.
CreateAlertCorrrelationList ==
    /\ pl_files' = pl_files \cup {"correlating_alerts.json"}
    /\ pl_last' = Called("create_alert_corrrelation_list", TRUE, TRUE, "none")
    /\ UNCHANGED <<pl_groups, pl_shape>>

NextPL ==
    /\ \/ PLClearQueryResults
       \/ GetMeanDurationPerAlertname
       \/ GroupAlertTimeseriesPerCluster
       \/ CorrelateData
       \/ CreateAlertCorrrelationList
    /\ UNCHANGED <<tmVars, qeVars, dcVars, caVars, qsVars, trVars,
                   fdVars, tsVars, clVars, mdVars, lateVars>>

InitPL ==
    /\ PLInit /\ LateIdle /\ FDIdle /\ TSIdle /\ CLIdle /\ MDIdle
    /\ TMIdle /\ QEIdle /\ DCIdle /\ CAIdle /\ QSIdle /\ TRIdle

SpecPL == InitPL /\ [][NextPL]_vars

\* ------------------------------------- claims on the stages of a run

\* C21 (as claimed): when compaction of a run directory finishes, every
\* group directory and every data file under it has been deleted, and
\* finalData.json is the only entry left in the run directory.
C21_OnlyFinalDataLeft ==
    (pl_last.stage = "clear_query_results" /\ pl_last.raised = "none") =>
        /\ DOMAIN pl_groups = {}
        /\ ListDir = {"finalData.json"}

\* C22 (as claimed): every producing stage is skipped when its artifact is
\* already in the run directory: the stage neither computes nor writes.
C22_StageSkippedWhenArtifactExists ==
    (pl_last.stage \in Stages /\ pl_last.had) =>
        (~pl_last.computed /\ ~pl_last.wrote)

\* ================ __filter_data (analyzing/analyzing_filter.py)

\* The most series in the data given to __filter_data.
MaxSeries == 3

\* The label values of a series.  An alert may carry the name of a cluster.
FDStates == {"firing", "pending"}
FDClusters == {"c1", "c2"}
FDNames == {"x", "c1"}

\* The range lists of a series: one range, or another one.
FDValues == { << <<0, 0>> >>, << <<60, 60>> >> }

FDSeries == [alertstate : FDStates, cluster : FDClusters, alertname : FDNames,
             values : FDValues]

\* {}
EmptyDict == [k \in {} |-> <<>>]

\* One pass of "for alert in data".  out.get(alert_name, -1) looks the alert
\* name up among the clusters of out, where it is found only when a cluster
\* has that name; both lookups come before out[cluster] = {}.  The last
\* statement raises KeyError when out[cluster] has no list for the name.
FilterPass(out, alert) ==
    IF alert.alertstate = "pending" THEN [raised |-> FALSE, out |-> out]
    ELSE LET cluster == alert.cluster
             alert_name == alert.alertname
             index_cluster == cluster \in DOMAIN out
             index_alert == alert_name \in DOMAIN out
             o1 == IF ~index_cluster THEN (cluster :> EmptyDict) @@ out ELSE out
             o2 == IF ~index_alert
                   THEN [o1 EXCEPT ![cluster] = (alert_name :> <<>>) @@ o1[cluster]]
                   ELSE o1
         IN IF alert_name \notin DOMAIN o2[cluster]
            THEN [raised |-> TRUE, out |-> o2]
            ELSE [raised |-> FALSE,
                  out |-> [o2 EXCEPT ![cluster][alert_name] = @ \o alert.values]]

\* __filter_data(data), from series i on.
RECURSIVE FilterLoop(_, _, _)
FilterLoop(data, i, out) ==
    IF i > Len(data) THEN [raised |-> FALSE, out |-> out]
    ELSE LET r == FilterPass(out, data[i])
         IN IF r.raised THEN r ELSE FilterLoop(data, i + 1, r.out)

\* __filter_data is called with a list of series.
FDInit ==
    /\ fd_in \in UNION {[1..n -> FDSeries] : n \in 0..MaxSeries}
    /\ fd_out = <<>>
    /\ fd_pc = "called"

\* __filter_data returns out, or raises.
FilterData ==
    /\ fd_pc = "called"
    /\ LET r == FilterLoop(fd_in, 1, EmptyDict) IN
        /\ fd_out' = r.out
        /\ fd_pc' = IF r.raised THEN "raised" ELSE "returned"
    /\ UNCHANGED fd_in

NextFD ==
    /\ FilterData
    /\ UNCHANGED <<tmVars, qeVars, dcVars, caVars, qsVars, trVars,
                   plVars, tsVars, clVars, mdVars, lateVars>>

InitFD ==
    /\ FDInit /\ LateIdle /\ PLIdle /\ TSIdle /\ CLIdle /\ MDIdle
    /\ TMIdle /\ QEIdle /\ DCIdle /\ CAIdle /\ QSIdle /\ TRIdle

SpecFD == InitFD /\ [][NextFD]_vars

\* ------------------------------------------------ claims on __filter_data

\* C23 (as claimed): grouping by cluster drops every pending series and, for
\* every (cluster, alertname), yields a range list that contains the ranges
\* of all non-pending series with that cluster and alertname: the ranges of
\* an earlier series are not lost when a later one is processed.
C23_RangesOfAllSeriesKept ==
    fd_pc = "returned" =>
        /\ \A i \in DOMAIN fd_in :
            fd_in[i].alertstate # "pending" =>
                /\ fd_in[i].cluster \in DOMAIN fd_out
                /\ fd_in[i].alertname \in DOMAIN fd_out[fd_in[i].cluster]
                /\ Range(fd_in[i].values) \subseteq
                        Range(fd_out[fd_in[i].cluster][fd_in[i].alertname])
        /\ \A c \in DOMAIN fd_out : \A n \in DOMAIN fd_out[c] :
            \A v \in Range(fd_out[c][n]) :
                \E i \in DOMAIN fd_in :
                    /\ fd_in[i].alertstate # "pending"
                    /\ fd_in[i].cluster = c /\ fd_in[i].alertname = n
                    /\ v \in Range(fd_in[i].values)

\* ===== CorrelationAnalyzer.__create_time_samples_per_time and __sort_data

\* The most ranges in the range list of an alert.
MaxRanges == 2

\* The start and end of the window, the gaps of the analyzer, and the
\* starts and durations of the ranges.
TSStarts == {0, 2}
TSEnds == 0..6
TSGaps == {1, 2}
TSRanges == {0, 1, 3, 6} \X {0, 1, 3}

\* __sort_data: the range with the least start, the first of them when
\* several have it, is moved to out until data is empty.
RECURSIVE SortData(_)
SortData(data) ==
    IF data = <<>> THEN <<>>
    ELSE LET min_index == CHOOSE i \in DOMAIN data :
                            /\ \A j \in DOMAIN data : data[i][1] <= data[j][1]
                            /\ \A j \in 1..(i - 1) : data[j][1] # data[i][1]
         IN <<data[min_index]>> \o
            SortData(SubSeq(data, 1, min_index - 1)
                     \o SubSeq(data, min_index + 1, Len(data)))

\* "for _ in range(int(n)): if not start + self.gap < limit: break;
\* samples.append(v); start += self.gap": the samples and the start after it.
RECURSIVE Fill(_, _, _, _, _, _)
Fill(samples, start, n, v, limit, gap) ==
    IF n <= 0 \/ ~(start + gap < limit) THEN [samples |-> samples, start |-> start]
    ELSE Fill(Append(samples, v), start + gap, n - 1, v, limit, gap)

\* One pass of "for time_pair in data", for a start that is not after end.
SamplesOfPair(st, time_pair, end, gap) ==
    LET alert_start == time_pair[1]
        alert_duration == time_pair[2]
        floor_samples == (alert_start - st.start) \div gap
        null_samples ==
            IF st.start # alert_start /\ alert_start - floor_samples * gap # st.start
            THEN floor_samples + 1 ELSE floor_samples
        zeros == IF st.start <= alert_start
                 THEN Fill(st.samples, st.start, null_samples, 0, end, gap)
                 ELSE st
        one_samples == (((alert_start + alert_duration) - zeros.start) \div gap) + 1
    IN IF alert_start + alert_duration * gap >= zeros.start
       THEN Fill(zeros.samples, zeros.start, one_samples, 1, end, gap)
       ELSE zeros

\* The loop over data, from pair i on; it ends when start is after end.
RECURSIVE PairsLoop(_, _, _, _, _)
PairsLoop(st, data, i, end, gap) ==
    IF i > Len(data) \/ st.start > end THEN st
    ELSE PairsLoop(SamplesOfPair(st, data[i], end, gap), data, i + 1, end, gap)

\* The zeros after the last range: (end - start) // gap + 1 of them at most,
\* while start < end, and one more when start has come to end.
TailSamples_None(st, end, gap) == st.samples

TailSamples(st, end, gap) ==
    LET tail == Fill(st.samples, st.start, ((end - st.start) \div gap) + 1, 0,
                     end + gap, gap)
    IN IF end = tail.start THEN Append(tail.samples, 0) ELSE tail.samples

\* __create_time_samples_per_time(data, start, end) with self.gap = gap.
CreateTimeSamplesPerTime(data, start, end, gap) ==
    TailSamples(PairsLoop([samples |-> <<>>, start |-> start], data, 1, end, gap),
                end, gap)

\* __get_time_samples is called for an alert with its range list.
TSInit ==
    /\ ts_in \in [start : TSStarts, end : TSEnds, gap : TSGaps,
                  data : UNION {[1..n -> TSRanges] : n \in 0..MaxRanges}]
    /\ ts_out = <<>>
    /\ ts_pc = "called"

\* __get_time_samples: the ranges are sorted and the samples are built.
GetTimeSamples ==
    /\ ts_pc = "called"
    /\ ts_out' = CreateTimeSamplesPerTime(SortData(ts_in.data), ts_in.start,
                                          ts_in.end, ts_in.gap)
    /\ ts_pc' = "returned"
    /\ UNCHANGED ts_in

NextTS ==
    /\ GetTimeSamples
    /\ UNCHANGED <<tmVars, qeVars, dcVars, caVars, qsVars, trVars,
                   plVars, fdVars, clVars, mdVars, lateVars>>

InitTS ==
    /\ TSInit /\ LateIdle /\ PLIdle /\ FDIdle /\ CLIdle /\ MDIdle
    /\ TMIdle /\ QEIdle /\ DCIdle /\ CAIdle /\ QSIdle /\ TRIdle

SpecTS == InitTS /\ [][NextTS]_vars

\* ------------------------------------------- claims on the binary samples

\* The grid ticks start, start + G, ... that are not after end, counted.
TickCount(start, end, gap) == IF start > end THEN 0 ELSE ((end - start) \div gap) + 1

\* C24: for fixed start, end and gap the binary sequence of an alert has the
\* same length whatever its range list is: the length of the sequence of an
\* alert without ranges, one sample per grid tick of the window.
C24_SameLength ==
    ts_pc = "returned" =>
        /\ Len(ts_out) = Len(CreateTimeSamplesPerTime(<<>>, ts_in.start, ts_in.end,
                                                      ts_in.gap))
        /\ Len(ts_out) = TickCount(ts_in.start, ts_in.end, ts_in.gap)

\* Two overlapping ranges, the first beginning before start and off the grid,
\* the second reaching past end, were sampled.
C24_Witness ==
    /\ ts_pc = "returned"
    /\ ts_in.start = 2 /\ ts_in.end = 6 /\ ts_in.gap = 2
    /\ ts_in.data = << <<1, 3>>, <<3, 3>> >>
    /\ Len(ts_out) = 3

\* C25 (as claimed): the sample at grid tick t = start + k * G is 1 exactly
\* when t lies within one of the ranges, a range (s, d) reaching from s to
\* s + d * G, and 0 otherwise, for every tick up to end.
C25_SampleIsOneInsideRanges ==
    ts_pc = "returned" =>
        \A k \in 0..(TickCount(ts_in.start, ts_in.end, ts_in.gap) - 1) :
            LET t == ts_in.start + k * ts_in.gap IN
            /\ k + 1 \in DOMAIN ts_out
            /\ ts_out[k + 1] = 1 <=>
                  \E i \in DOMAIN ts_in.data :
                      /\ ts_in.data[i][1] <= t
                      /\ t <= ts_in.data[i][1] + ts_in.data[i][2] * ts_in.gap

\* ============ create_alert_corrrelation_list (analyzing/analyzer.py)

\* The axes given: the sorted alert names, each once.
CLAxes == { <<>>, <<"x">>, <<"x", "y">>, <<"x", "y", "z">> }

\* The final coefficients, in thousandths.
CLValues == {-1000, 0, 500}

\* if corr >= 0.0
Keeps_Positive(corr) == corr > 0

Keeps(corr) == corr >= 0

\* "for index_corr, corr in enumerate(matrix[index_alert])", from index_corr
\* on: the cell of the alert itself is passed over, and a cell that is kept
\* is stored under the name of its column.
RECURSIVE RowLoop(_, _, _, _, _)
RowLoop(alerts, row, index_alert, index_corr, dict) ==
    IF index_corr > Len(row) THEN dict
    ELSE RowLoop(alerts, row, index_alert, index_corr + 1,
                 IF index_alert # index_corr /\ Keeps(row[index_corr])
                 THEN (alerts[index_corr] :> row[index_corr]) @@ dict
                 ELSE dict)

\* "for index_alert, alert in enumerate(alerts)", from index_alert on.
RECURSIVE AlertLoop(_, _, _, _)
AlertLoop(alerts, matrix, index_alert, alert_correlation) ==
    IF index_alert > Len(alerts) THEN alert_correlation
    ELSE AlertLoop(alerts, matrix, index_alert + 1,
                   (alerts[index_alert] :>
                        RowLoop(alerts, matrix[index_alert], index_alert, 1, EmptyDict))
                   @@ alert_correlation)

\* create_alert_corrrelation_list is called with an axis and its matrix.
CLInit ==
    /\ cl_in \in UNION {[alerts : {axis},
                         matrix : [DOMAIN axis -> [DOMAIN axis -> CLValues]]] :
                            axis \in CLAxes}
    /\ cl_out = <<>>
    /\ cl_pc = "called"

\* create_alert_corrrelation_list: the dict written to
\* correlating_alerts.json and returned.
WriteCorrelatingAlerts ==
    /\ cl_pc = "called"
    /\ cl_out' = AlertLoop(cl_in.alerts, cl_in.matrix, 1, EmptyDict)
    /\ cl_pc' = "returned"
    /\ UNCHANGED cl_in

NextCL ==
    /\ WriteCorrelatingAlerts
    /\ UNCHANGED <<tmVars, qeVars, dcVars, caVars, qsVars, trVars,
                   plVars, fdVars, tsVars, mdVars, lateVars>>

InitCL ==
    /\ CLInit /\ LateIdle /\ PLIdle /\ FDIdle /\ TSIdle /\ MDIdle
    /\ TMIdle /\ QEIdle /\ DCIdle /\ CAIdle /\ QSIdle /\ TRIdle

SpecCL == InitCL /\ [][NextCL]_vars

\* ------------------------------- claims on create_alert_corrrelation_list

MDMetrics == { [alertname |-> "x", cluster |-> "c1"],
               [alertname |-> "y", cluster |-> "c1"],
               [instance |-> "i1", cluster |-> "c1"] }

\* The range lists of a series, pairs (start, duration).
MDValues == { << <<100, 30>>, <<500, 10>> >>, << <<0, 0>> >>, << <<0, 60>> >> }

MDSeries == [metric : MDMetrics, values : MDValues]

\* [value_pair[1] for value_pair in values]
DurationsOf(values) == [k \in DOMAIN values |-> values[k][2]]

\* One pass of "for result in results": result["metric"]["alertname"] raises
\* KeyError for a series without that label; else the durations of the
\* series are appended to the list of its alert name.
DurationPass(alerts, result) ==
    IF "alertname" \notin DOMAIN result.metric
    THEN [raised |-> TRUE, alerts |-> alerts]
    ELSE LET name == result.metric.alertname
             a1 == IF name \notin DOMAIN alerts THEN (name :> <<>>) @@ alerts
                   ELSE alerts
         IN [raised |-> FALSE,
             alerts |-> [a1 EXCEPT ![name] = @ \o DurationsOf(result.values)]]

\* The loop over results, from series i on.
RECURSIVE DurationLoop(_, _, _)
DurationLoop(results, i, alerts) ==
    IF i > Len(results) THEN [raised |-> FALSE, alerts |-> alerts]
    ELSE LET r == DurationPass(alerts, results[i])
         IN IF r.raised THEN r ELSE DurationLoop(results, i + 1, r.alerts)

\* sum(durations) / len(durations): the float quotient of two small integers
\* is the correctly rounded value of the fraction, kept here as the fraction.
Mean(durations) == [num |-> SeqSum(durations), den |-> Len(durations)]

\* __calc_mean_duration_per_alertname is called with the compacted series.
MDInit ==
    /\ md_in \in UNION {[1..n -> MDSeries] : n \in 0..MaxSeries}
    /\ md_out = <<>>
    /\ md_pc = "called"

\* __calc_mean_duration_per_alertname returns the means, or raises.
CalcMeanDurationPerAlertname ==
    /\ md_pc = "called"
    /\ LET r == DurationLoop(md_in, 1, EmptyDict) IN
        IF r.raised
        THEN /\ md_pc' = "raised"
             /\ UNCHANGED md_out
        ELSE /\ md_pc' = "returned"
             /\ md_out' = [name \in DOMAIN r.alerts |-> Mean(r.alerts[name])]
    /\ UNCHANGED md_in

NextMD ==
    /\ CalcMeanDurationPerAlertname
    /\ UNCHANGED <<tmVars, qeVars, dcVars, caVars, qsVars, trVars,
                   plVars, fdVars, tsVars, clVars, lateVars>>

InitMD ==
    /\ MDInit /\ LateIdle /\ PLIdle /\ FDIdle /\ TSIdle /\ CLIdle
    /\ TMIdle /\ QEIdle /\ DCIdle /\ CAIdle /\ QSIdle /\ TRIdle

SpecMD == InitMD /\ [][NextMD]_vars

\* ------------------------------------------- claims on the mean durations

\* The durations of all ranges of the series from i on that carry the name.
RECURSIVE DurationsNamed(_, _, _)
DurationsNamed(results, i, name) ==
    IF i > Len(results) THEN <<>>
    ELSE (IF "alertname" \in DOMAIN results[i].metric
             /\ results[i].metric.alertname = name
          THEN DurationsOf(results[i].values) ELSE <<>>)
         \o DurationsNamed(results, i + 1, name)

\* The alert names that occur in the series.
NamesIn(results) ==
    {results[i].metric.alertname :
        i \in {j \in DOMAIN results : "alertname" \in DOMAIN results[j].metric}}

\* C30 (as claimed): every alert name that occurs in the compacted series is
\* mapped to the arithmetic mean of the durations of all ranges of all
\* series with that name, and a series without an alertname label is
\* skipped without failing the stage.
C30_MeanDurationPerAlertname ==
    /\ md_pc # "raised"
    /\ md_pc = "returned" =>
        /\ DOMAIN md_out = NamesIn(md_in)
        /\ \A name \in NamesIn(md_in) :
            md_out[name].num * Len(DurationsNamed(md_in, 1, name))
                = SeqSum(DurationsNamed(md_in, 1, name)) * md_out[name].den

\* ======== main.main and the Exporter (main.py, presenting/metrics.py)

\* The most passes of main's "while True" that are followed.
MaxCycles == 2

\* What a file of a run directory may hold, as one number; NoValue stands
\* for a file that is not there, and for a gauge that was never set.
EXValues == {1, 2}
NoValue == 0 * 1

\* The run directory of pass k (do_analysis creates a new one per pass).
RunDir(k) == k

\* One of the two update methods: "for path in self.paths": the method
\* returns at the first directory without the file; os.path.getmtime(file)
\* is never the 0 that last_changed holds, as last_changed is never
\* assigned; else the gauge is set from the file.
RECURSIVE UpdateLoop(_, _, _, _)
UpdateLoop(paths, i, file, gauge) ==
    IF i > Len(paths) THEN gauge
    ELSE IF ex_files[paths[i]][file] = NoValue THEN gauge
    ELSE UpdateLoop(paths, i + 1, file, ex_files[paths[i]][file])

\* main: e = Exporter(prometheus_port=..., paths=[]); the exporter thread is
\* created and started.
EXInit ==
    /\ ex_paths = <<>>
    /\ ex_files = [d \in 1..MaxCycles |-> [durations |-> NoValue, correlating |-> NoValue]]
    /\ ex_gauges = [important |-> NoValue, correlation |-> NoValue]
    /\ ex_thread = "created"
    /\ ex_main = "start"
    /\ ex_cycle = 0

\* Exporter.start_server: start_http_server(self.port).
StartServer ==
    /\ ex_thread = "created"
    /\ ex_thread' = "important"
    /\ UNCHANGED <<ex_paths, ex_files, ex_gauges, ex_main, ex_cycle>>

\* update_metrics, first call: update_alertmagnet_important_true_metrics.
UpdateImportantTrue ==
    /\ ex_thread = "important"
    /\ ex_gauges' = [ex_gauges EXCEPT !.important =
                        UpdateLoop(ex_paths, 1, "durations", @)]
    /\ ex_thread' = "correlation"
    /\ UNCHANGED <<ex_paths, ex_files, ex_main, ex_cycle>>

\* update_metrics, second call:
\* update_alertmagnet_correlation_coefficient_metrics; update_metrics and
\* start_server return and the thread ends.
UpdateCorrelationCoefficient ==
    /\ ex_thread = "correlation"
    /\ ex_gauges' = [ex_gauges EXCEPT !.correlation =
                        UpdateLoop(ex_paths, 1, "correlating", @)]
    /\ ex_thread' = "ended"
    /\ UNCHANGED <<ex_paths, ex_files, ex_main, ex_cycle>>

\* main, "while True": do_analysis is called; it writes
\* alertMeanDurations.json and correlating_alerts.json into the pass's run
\* directory and returns the paths.
DoAnalysis ==
    /\ ex_main \in {"start", "slept"}
    /\ ex_cycle < MaxCycles
    /\ ex_cycle' = ex_cycle + 1
    /\ \E v \in EXValues, w \in EXValues :
        ex_files' = [ex_files EXCEPT ![RunDir(ex_cycle + 1)] =
                        [durations |-> v, correlating |-> w]]
    /\ ex_main' = "analysed"
    /\ UNCHANGED <<ex_paths, ex_gauges, ex_thread>>

\* main: e.paths = paths[0:1]; then time.sleep(60 * 60 * 24) begins.
AssignPaths ==
    /\ ex_main = "analysed"
    /\ ex_paths' = <<RunDir(ex_cycle)>>
    /\ ex_main' = "sleeping"
    /\ UNCHANGED <<ex_files, ex_gauges, ex_thread, ex_cycle>>

\* main: the sleep ends and the paths are added to the directories to be
\* removed; from the second pass on there are more than two, and os.remove
\* of a directory raises.
EndSleep ==
    /\ ex_main = "sleeping"
    /\ ex_main' = IF 2 * ex_cycle > 2 THEN "raised" ELSE "slept"
    /\ UNCHANGED <<ex_paths, ex_files, ex_gauges, ex_thread, ex_cycle>>

EXThread == StartServer \/ UpdateImportantTrue \/ UpdateCorrelationCoefficient

EXMain == DoAnalysis \/ AssignPaths \/ EndSleep

EXOthers == <<tmVars, qeVars, dcVars, caVars, qsVars, trVars,
              plVars, fdVars, tsVars, clVars, mdVars, pqVars, cpVars, qwVars>>

NextEX == (EXThread \/ EXMain) /\ UNCHANGED EXOthers

InitEX ==
    /\ EXInit /\ PQIdle /\ CPIdle /\ QWIdle /\ PLIdle /\ FDIdle /\ TSIdle /\ CLIdle /\ MDIdle
    /\ TMIdle /\ QEIdle /\ DCIdle /\ CAIdle /\ QSIdle /\ TRIdle

SpecEX == InitEX /\ [][NextEX]_vars

\* The exporter thread is scheduled, and the main thread goes on.
FairSpecEX ==
    /\ SpecEX
    /\ WF_vars(EXThread /\ UNCHANGED EXOthers)
    /\ WF_vars(EXMain /\ UNCHANGED EXOthers)

\* ------------------------------------------------ claims on the Exporter

\* The gauges hold the values of the files of the watched run directory.
Published ==
    /\ ex_paths # <<>>
    /\ ex_gauges.important = ex_files[ex_paths[1]].durations
    /\ ex_gauges.correlation = ex_files[ex_paths[1]].correlating

\* C31 (as claimed): after an analysis pass has written
\* alertMeanDurations.json and correlating_alerts.json into the watched run
\* directory, the exporter eventually publishes both gauges with the values
\* of those files.
C31_EventuallyPublished ==
    [](ex_main \in {"sleeping", "slept", "raised"} => <>Published)

\* ====== Query.__parse_request_data (utilities/query_management.py)

\* The keys a caller may put into kwargs["params"], and the values.
PQOverrideKeys == {"step", "engine", "start", "end", "limit"}
PQOverrideValues == {"3600", "other"}

\* The start and end given, strings as str(timestamp) gives them.
PQTimes == {"0.0", "18000.0"}

\* valid_query_parameters
ValidQueryParameters_WithStart ==
    {"query", "dedup", "partial_response", "step", "max_source_resolution",
     "engine", "analyze", "start"}

ValidQueryParameters ==
    {"query", "dedup", "partial_response", "step", "max_source_resolution",
     "engine", "analyze"}

\* The params dict before the overrides are applied.
DefaultParams(start, end) ==
    [query |-> "ALERTS", dedup |-> "true", partial_response |-> "false",
     start |-> start, end |-> end, step |-> "60",
     max_source_resolution |-> "0s", engine |-> "thanos", analyze |-> "false"]

\* "for parameter_key in self.kwargs['params'].keys(): if parameter_key in
\* valid_query_parameters: params[parameter_key] = ...", over the keys that
\* are left.
RECURSIVE ApplyOverrides(_, _, _)
ApplyOverrides(params, given, keys) ==
    IF keys = {} THEN params
    ELSE LET parameter_key == CHOOSE k \in keys : TRUE
         IN ApplyOverrides(
                IF parameter_key \in ValidQueryParameters
                THEN (parameter_key :> given[parameter_key]) @@ params
                ELSE params,
                given, keys \ {parameter_key})

\* Query.__parse_request_data: the target and the params.
QueryRequestData(start, end, kwargs) ==
    [target |-> IF "target" \in DOMAIN kwargs THEN kwargs.target ELSE "query_range",
     params |-> IF "params" \in DOMAIN kwargs
                THEN ApplyOverrides(DefaultParams(start, end), kwargs.params,
                                    DOMAIN kwargs.params)
                ELSE DefaultParams(start, end)]

\* The kwargs a Query may be given: none of target and params, or either, or
\* both.
PQKwargs ==
    LET dicts == UNION {[keys -> PQOverrideValues] : keys \in SUBSET PQOverrideKeys}
    IN {<<>>} \cup {[target |-> "query"]}
       \cup {[params |-> d] : d \in dicts}
       \cup {[target |-> "query", params |-> d] : d \in dicts}

\* Query(base_url, start, end, kwargs) is called.
PQInit ==
    /\ pq_in \in [start : PQTimes, end : PQTimes, kwargs : PQKwargs]
    /\ pq_out = <<>>
    /\ pq_pc = "called"

\* Query.__init__ and initialize: start and end are given, so they are kept,
\* and __parse_request_data sets target and params.
InitializeQuery ==
    /\ pq_pc = "called"
    /\ pq_out' = QueryRequestData(pq_in.start, pq_in.end, pq_in.kwargs)
    /\ pq_pc' = "returned"
    /\ UNCHANGED pq_in

PQOthers == <<tmVars, qeVars, dcVars, caVars, qsVars, trVars,
              plVars, fdVars, tsVars, clVars, mdVars, exVars, cpVars, qwVars>>

NextPQ == InitializeQuery /\ UNCHANGED PQOthers

InitPQ ==
    /\ PQInit /\ EXIdle /\ CPIdle /\ QWIdle /\ PLIdle /\ FDIdle /\ TSIdle /\ CLIdle /\ MDIdle
    /\ TMIdle /\ QEIdle /\ DCIdle /\ CAIdle /\ QSIdle /\ TRIdle

SpecPQ == InitPQ /\ [][NextPQ]_vars

\* ----------------------------------- claims on the parameters of a Query

\* The overrides given, none when kwargs has no params.
OverridesGiven == IF "params" \in DOMAIN pq_in.kwargs THEN pq_in.kwargs.params ELSE <<>>

\* C33: a Query built from start S, end E and optional overrides has target
\* query_range by default and exactly the nine parameters query=ALERTS,
\* dedup=true, partial_response=false, start=S, end=E, step,
\* max_source_resolution, engine=thanos, analyze=false; an override
\* replaces only the recognised key it names, and an override with an
\* unrecognised key, or for start or end, adds and changes nothing.
C33_NineParameters ==
    pq_pc = "returned" =>
        /\ "target" \notin DOMAIN pq_in.kwargs => pq_out.target = "query_range"
        /\ DOMAIN pq_out.params =
                {"query", "dedup", "partial_response", "start", "end", "step",
                 "max_source_resolution", "engine", "analyze"}
        /\ pq_out.params.start = pq_in.start
        /\ pq_out.params.end = pq_in.end
        /\ pq_out.params.query = "ALERTS"
        /\ pq_out.params.dedup = "true"
        /\ pq_out.params.partial_response = "false"
        /\ pq_out.params.max_source_resolution = "0s"
        /\ pq_out.params.analyze = "false"
        /\ pq_out.params.step =
                IF "step" \in DOMAIN OverridesGiven THEN OverridesGiven.step ELSE "60"
        /\ pq_out.params.engine =
                IF "engine" \in DOMAIN OverridesGiven THEN OverridesGiven.engine
                ELSE "thanos"

\* A Query was given overrides for step, for start and for an unrecognised
\* key: the step alone was replaced.
C33_Witness ==
    /\ pq_pc = "returned"
    /\ "target" \notin DOMAIN pq_in.kwargs
    /\ DOMAIN OverridesGiven = {"step", "start", "limit"}
    /\ OverridesGiven.step = "3600"
    /\ pq_out.params.step = "3600"
    /\ pq_out.params.start = pq_in.start
    /\ "limit" \notin DOMAIN pq_out.params

\* ================== Calc.__parse_past_range (utilities/calc.py)

\* The longest past_range string that is parsed.
MaxStr == 4

\* The characters of a past_range string, and the digits among them.
CPDigits == {"1", "2"}
CPChars == CPDigits \cup {"y", "m", "w", "d", "x"}

\* int(c) for a digit c.
DigitValue(c) == IF c = "1" THEN 1 ELSE 2

\* int(s) for a string of digits.
RECURSIVE IntOf(_)
IntOf(s) ==
    IF s = <<>> THEN 0
    ELSE 10 * IntOf(SubSeq(s, 1, Len(s) - 1)) + DigitValue(s[Len(s)])

\* The end of the run of digits of s that begins at position pos.
RECURSIVE DigitsEnd(_, _)
DigitsEnd(s, pos) ==
    IF pos <= Len(s) /\ s[pos] \in CPDigits THEN DigitsEnd(s, pos + 1) ELSE pos

\* "(?:(\d+)unit)?" tried at position pos: the group takes part when a run
\* of one or more digits is followed by the unit; else it matches the empty
\* string and its number is None, counted as 0.
OptionalGroup(s, pos, unit) ==
    LET e == DigitsEnd(s, pos)
    IN IF e > pos /\ e <= Len(s) /\ s[e] = unit
       THEN [n |-> IntOf(SubSeq(s, pos, e - 1)), pos |-> e + 1]
       ELSE [n |-> 0, pos |-> pos]

\* years * 365 + months * 28 + weeks * 7 + days
TotalDays_Month30(years, months, weeks, days) ==
    years * 365 + months * 30 + weeks * 7 + days

TotalDays(years, months, weeks, days) ==
    years * 365 + months * 28 + weeks * 7 + days

\* __parse_past_range: re.match anchors the pattern at the start of the
\* string only, and every group of the pattern is optional, so there is
\* always a match and the ValueError is never raised.
ParsePastRange(s) ==
    LET y == OptionalGroup(s, 1, "y")
        m == OptionalGroup(s, y.pos, "m")
        w == OptionalGroup(s, m.pos, "w")
        d == OptionalGroup(s, w.pos, "d")
    IN [raised |-> FALSE, days |-> TotalDays(y.n, m.n, w.n, d.n)]

\* calculate_max_past calls __parse_past_range with the configured string.
CPInit ==
    /\ cp_in \in UNION {[1..n -> CPChars] : n \in 0..MaxStr}
    /\ cp_out = 0
    /\ cp_pc = "called"

\* __parse_past_range returns the timedelta, or raises.
CalcParsePastRange ==
    /\ cp_pc = "called"
    /\ LET r == ParsePastRange(cp_in) IN
        /\ cp_pc' = IF r.raised THEN "raised" ELSE "returned"
        /\ cp_out' = r.days
    /\ UNCHANGED cp_in

CPOthers == <<tmVars, qeVars, dcVars, caVars, qsVars, trVars,
              plVars, fdVars, tsVars, clVars, mdVars, exVars, pqVars, qwVars>>

NextCP == CalcParsePastRange /\ UNCHANGED CPOthers

InitCP ==
    /\ CPInit /\ EXIdle /\ PQIdle /\ QWIdle /\ PLIdle /\ FDIdle /\ TSIdle /\ CLIdle /\ MDIdle
    /\ TMIdle /\ QEIdle /\ DCIdle /\ CAIdle /\ QSIdle /\ TRIdle

SpecCP == InitCP /\ [][NextCP]_vars

\* ------------------------------------------ claims on __parse_past_range

\* The numbers a component may carry, as strings of digits; the empty
\* string stands for an absent component.
NumberStrings == UNION {[1..n -> CPDigits] : n \in 0..(MaxStr - 1)}

\* The component of number string n and the unit, "" when absent.
Component(n, unit) == IF n = <<>> THEN <<>> ELSE Append(n, unit)

\* The expressions Ny Nm Nw Nd, in that order with any component absent,
\* that are no longer than MaxStr, each with the days it stands for.
Expressions ==
    {<<Component(c[1], "y") \o Component(c[2], "m") \o Component(c[3], "w")
            \o Component(c[4], "d"),
       365 * IntOf(c[1]) + 28 * IntOf(c[2]) + 7 * IntOf(c[3]) + IntOf(c[4])>> :
        c \in {c \in NumberStrings \X NumberStrings \X NumberStrings \X NumberStrings :
                  Len(c[1]) + Len(c[2]) + Len(c[3]) + Len(c[4]) <= MaxStr}}

\* The string begins with a component: digits, then one of the units.
HasLeadingComponent(s) ==
    \E e \in 2..Len(s) :
        /\ \A i \in 1..(e - 1) : s[i] \in CPDigits
        /\ s[e] \in {"y", "m", "w", "d"}

\* C34: for an expression made of the optional components Ny, Nm, Nw, Nd in
\* that order the parser returns 365 y + 28 m + 7 w + d days, an absent
\* component counting as 0 and the empty string giving 0 days; an input with
\* no recognisable leading component gives 0 days.
C34_DaysOfExpression ==
    cp_pc # "called" =>
        /\ \A e \in Expressions :
            e[1] = cp_in => (cp_pc = "returned" /\ cp_out = e[2])
        /\ ~HasLeadingComponent(cp_in) => (cp_pc = "returned" /\ cp_out = 0)

\* "1y2m" was parsed to 365 + 56 days.
C34_Witness ==
    /\ cp_pc = "returned"
    /\ cp_in = <<"1", "y", "2", "m">>
    /\ cp_out = 421

\* C35 (as claimed): the parser fails for malformed input, any text that is
\* not a sequence of Ny, Nm, Nw, Nd components in that order, components in
\* the wrong order and trailing text after a valid prefix included; it
\* returns no duration for such input.
C35_MalformedFails ==
    cp_pc # "called" =>
        ((\A e \in Expressions : e[1] # cp_in) => cp_pc = "raised")

\* ===== the directories of the query tasks: QueryManager, QueryQueue and
\* ===== QueryObject (utilities/query_management.py)

\* The most query objects one queue holds.
MaxGroups == 2

\* The files one task's executor writes at most.
MaxWrites == 1 + 1

\* The tiers: the queues main.query_data adds, in the order of query_uuids.
Tiers == {0, 1}

\* The values uuid.uuid4().hex may return.
Uuids == {"u1", "u2"}

\* The query tasks: QueryObject number nr of the queue of a tier.
QWTasks == Tiers \X (0..(MaxGroups - 1))

\* No path assigned yet (self.path = None).
NoPath == <<>>

\* QueryQueue.create_query_queue_environemt: os.path.join(path, queue_uuid);
\* the base path is the same for every queue and left out.
QueuePath(queue_uuid) == <<queue_uuid>>

\* QueryObject.create_query_object_environment:
\* os.path.join(path, f"group{self.object_nr}")
ObjectPath(path, nr) == Append(path, nr)

\* Mutant of ExecutorPath: the executor is given the queue's directory.
ExecutorPath_OfQueue(queue_path, object_path) == queue_path

\* QueryObject.execute_query: path = self.path; QueryExecutor(path=path)
ExecutorPath(queue_path, object_path) == object_path

\* QueryExecutor.__handle_query_result: os.path.join(self.path,
\* f"data{self.chunk}.json")
DataFile(path, chunk) == [dir |-> path, k |-> chunk]

\* The loop of create_query_queue_environemt over self.query_objects, from
\* object nr on: each sets its path and makes its directory with os.mkdir,
\* which raises FileExistsError when the directory exists.
RECURSIVE ObjectLoop(_, _, _, _)
ObjectLoop(env, tier, nr, n) ==
    IF nr >= n THEN env
    ELSE LET p == ObjectPath(env.qpath[tier], nr)
             e == [env EXCEPT !.opath[<<tier, nr>>] = p]
         IN IF p \in env.dirs THEN [e EXCEPT !.pc = "raised"]
            ELSE ObjectLoop([e EXCEPT !.dirs = @ \cup {p}], tier, nr + 1, n)

\* QueryQueue.create_query_queue_environemt with uuid4 returning u: the
\* queue's path is set, its directory made, then the objects' environments.
CreateQueryQueueEnvironemt(env, tier, u, n) ==
    LET p == QueuePath(u)
        e == [env EXCEPT !.qpath[tier] = p]
    IN IF p \in env.dirs THEN [e EXCEPT !.pc = "raised"]
       ELSE ObjectLoop([e EXCEPT !.dirs = @ \cup {p}], tier, 0, n)

\* The loop of QueryManager.create_environments over the queues from tier t
\* on; a queue without query objects is skipped; an exception ends the loop.
RECURSIVE EnvironmentsLoop(_, _, _, _)
EnvironmentsLoop(env, t, uuids, n) ==
    IF t \notin Tiers \/ env.pc = "raised" THEN env
    ELSE IF n[t] = 0 THEN EnvironmentsLoop(env, t + 1, uuids, n)
    ELSE EnvironmentsLoop(CreateQueryQueueEnvironemt(env, t, uuids[t], n[t]),
                          t + 1, uuids, n)

\* main.query_data after create_query_objects: the queues hold their query
\* objects, no directory is made.
QWInit ==
    /\ qw_in \in [Tiers -> 0..MaxGroups]
    /\ qw_env = [pc |-> "created", dirs |-> {},
                 qpath |-> [t \in Tiers |-> NoPath],
                 opath |-> [k \in QWTasks |-> NoPath]]
    /\ qw_task = [k \in QWTasks |->
                    [pc |-> IF k[2] < qw_in[k[1]] THEN "created" ELSE "none",
                     chunk |-> 0]]
    /\ qw_written = {}

\* QueryManager.create_environments
CreateEnvironments ==
    /\ qw_env.pc = "created"
    /\ \E uuids \in [Tiers -> Uuids] :
        LET e == EnvironmentsLoop(qw_env, 0, uuids, qw_in)
        IN qw_env' = IF e.pc = "raised" THEN e ELSE [e EXCEPT !.pc = "environments"]
    /\ UNCHANGED <<qw_in, qw_task, qw_written>>

\* main.query_data: schedule_queries of every queue that holds query objects
\* (one add_thread per object), then tm.execute_all_threads is entered.
ScheduleQueries ==
    /\ qw_env.pc = "environments"
    /\ qw_env' = [qw_env EXCEPT !.pc = "scheduled"]
    /\ qw_task' = [k \in QWTasks |->
                     IF qw_task[k].pc = "created"
                     THEN [qw_task[k] EXCEPT !.pc = "scheduled"]
                     ELSE qw_task[k]]
    /\ UNCHANGED <<qw_in, qw_written>>

\* The thread of a task begins QueryObject.execute_query: a QueryExecutor of
\* its own, with chunk 0.
ExecuteQuery(k) ==
    /\ qw_task[k].pc = "scheduled"
    /\ qw_task' = [qw_task EXCEPT ![k] = [pc |-> "running", chunk |-> 0]]
    /\ UNCHANGED <<qw_in, qw_env, qw_written>>

\* One successful sub-request of the task's executor: data{chunk}.json is
\* written in the executor's path and the caller does chunk += 1.
HandleQueryResult(k) ==
    /\ qw_task[k].pc = "running"
    /\ qw_task[k].chunk < MaxWrites
    /\ LET path == ExecutorPath(qw_env.qpath[k[1]], qw_env.opath[k])
       IN qw_written' = qw_written \cup {<<k, DataFile(path, qw_task[k].chunk)>>}
    /\ qw_task' = [qw_task EXCEPT ![k].chunk = @ + 1]
    /\ UNCHANGED <<qw_in, qw_env>>

\* execute_query of the task returns; its thread ends.
ExecuteQueryReturns(k) ==
    /\ qw_task[k].pc = "running"
    /\ qw_task' = [qw_task EXCEPT ![k].pc = "ended"]
    /\ UNCHANGED <<qw_in, qw_env, qw_written>>

QWOthers == <<tmVars, qeVars, dcVars, caVars, qsVars, trVars,
              plVars, fdVars, tsVars, clVars, mdVars, exVars, pqVars, cpVars>>

NextQW ==
    /\ \/ CreateEnvironments
       \/ ScheduleQueries
       \/ \E k \in QWTasks : ExecuteQuery(k)
       \/ \E k \in QWTasks : HandleQueryResult(k)
       \/ \E k \in QWTasks : ExecuteQueryReturns(k)
    /\ UNCHANGED QWOthers

InitQW ==
    /\ QWInit /\ EXIdle /\ PQIdle /\ CPIdle /\ PLIdle /\ FDIdle /\ TSIdle /\ CLIdle
    /\ MDIdle /\ TMIdle /\ QEIdle /\ DCIdle /\ CAIdle /\ QSIdle /\ TRIdle

SpecQW == InitQW /\ [][NextQW]_vars

\* ------------------------------------------------ claims on the query tasks

\* C37: under every interleaving of the query tasks, no file is written by
\* two tasks, of one tier or of two, and each task writes only inside the
\* group{nr} directory of its own number under the directory of its own
\* tier's queue.
C37_TasksWriteApart ==
    /\ \A w1 \in qw_written : \A w2 \in qw_written :
            w1[2] = w2[2] => w1[1] = w2[1]
    /\ \A w \in qw_written :
            w[2].dir = ObjectPath(qw_env.qpath[w[1][1]], w[1][2])

\* Two tasks of one tier and a task of the other tier, which has the number
\* of one of the two, have each written their data0.json.
C37_Witness ==
    /\ \E f \in qw_written : f[1] = <<0, 0>> /\ f[2].k = 0
    /\ \E f \in qw_written : f[1] = <<0, 1>> /\ f[2].k = 0
    /\ \E f \in qw_written : f[1] = <<1, 0>> /\ f[2].k = 0
    /\ \E k \in QWTasks : qw_task[k].pc = "running"

====
